---- MODULE Spec2Model ----
(***************************************************************************)
(* Execution engine of the graph-native agent: the variant executor        *)
(* (action/executor.py), the context manager (core/context_manager.py),    *)
(* the human escalation prompt (core/human_in_loop.py), the fallback and   *)
(* traversal policy of the decision module (decision/decision.py), the     *)
(* driving loop (agent/agent_loop.py) and the parallel combinator.         *)
(***************************************************************************)
EXTENDS Integers, Sequences, FiniteSets, TLC

(***************************************************************************)
(* Program constants and model bounds                                      *)
(***************************************************************************)
\* executor.py:21  MAX_FUNCTIONS = 5
MAX_FUNCTIONS == 5

\* largest value of the MAX_RETRIES setting the model explores
MaxRetriesCfg == 3

\* control_manager.py:13  the default of the MAX_RETRIES setting
DefaultMaxRetries == 3

\* Python's None
None == "None"

(***************************************************************************)
(* Sources of code variants.  A source text is represented by what the     *)
(* parser makes of it: kind "empty" (nothing left after strip()),          *)
(* "nostmt" (parses to a module with an empty body, e.g. only a comment),  *)
(* "invalid" (ast.parse raises SyntaxError), "ok" (at least one            *)
(* statement); calls is the number of ast.Call nodes in the tree.          *)
(***************************************************************************)
Source(kind, calls) == [kind |-> kind, calls |-> calls]

SrcEmpty   == Source("empty", 0)
SrcComment == Source("nostmt", 0)
SrcInvalid == Source("invalid", 0)

Sources ==
    {SrcEmpty, SrcComment, SrcInvalid}
        \cup {Source("ok", c) : c \in 0..(MAX_FUNCTIONS + 1)}

\* what the human types at the "Your answer: " prompt, after strip();
\* "EOF" stands for EOFError / KeyboardInterrupt raised by input()
HumanValues == {"4"}
StdinAnswers == HumanValues \cup {"", "EOF"}

VARIABLES
    \* ---- module-level setting, fixed for the life of the process ----
    MAX_RETRIES,   \* control_manager.py: int(os.getenv("MAX_RETRIES", "3"))
    \* ---- ContextManager and its PlanGraph ----
    nodes,            \* plan_graph.nodes: node id -> StepNode
    children,         \* plan_graph adjacency: node id -> list of child ids
    start_node_id,
    globals_schema,
    failed_nodes,
    history,
    nodes_executed,
    \* ---- execute_step (one activation) ----
    es_pc,            \* "idle" | "for" | "await" | "returned"
    es_node,          \* node.index
    es_iter,          \* position of the for loop in node.variants
    variants_tried,
    es_last_error,
    es_result,        \* the dict returned
    variant_results,  \* what run_code_variant returned, per variant tried
    calls_made,       \* operations the caller has issued so far
    fallback_id,      \* what the caller's last add_fallback_node returned
    next_node_id,     \* what the caller's last select_next_node returned
    call_error,       \* what the caller's last call raised (None: nothing)
    \* ---- AgentLoop.run (one query) ----
    loop_pc,          \* "idle" | "head" | "await" | "done"
    current_node_id,
    completed_steps,       \* node ids of the steps that succeeded, in order
    node_execution_trace,  \* node ids passed to execute_step, in order
    consecutive_failures,
    is_simple_math,   \* the query matches \d+\s*[+\-*/]\s*\d+
    goal_met,         \* p.goal_met of the last perceive_step_output
    final_answer,     \* what run returned (None while it runs)
    \* ---- parallel(tool_calls...) (one activation) ----
    par_pc,           \* "idle" | "gather" | "returned"
    tool_calls_arg,   \* the tool_calls tuple: sequence of tool names
    coros,            \* per call: "pending" or its outcome
    par_result,       \* the list parallel returned
    \* ---- run_user_code (one activation) ----
    code,          \* the source being run
    max_retries,   \* ControlManager().get_max_retries()
    retry_count,
    last_error,
    ruc_pc,        \* "idle" | "while" | "try" | "sleep" | "after" | "returned"
    ruc_result,    \* the dict returned
    \* ---- what an observer of the activation sees ----
    attempts,      \* sequence of "attempt" / "sleep" events, in order
    exec_count,    \* times the compiled code was executed in the sandbox
    failures,      \* the failed attempts' kinds, in order   (traced runs)
    tool_calls,    \* tool invocations made by executed code (traced runs)
    hil_calls,     \* calls of ask_user_for_tool_result
    stdin,         \* what the input channel delivered ("unread" before)
    \* ---- UserPlanStorage (class-level, shared by every run) ----
    session_plans,    \* _session_plans: session id -> stored plan
    uuid_counter,     \* uuid.uuid4() calls made so far
    \* ---- ask_user_for_plan (one activation) ----
    ap_pc,            \* "idle" | "choice" | "json" | "lines" | "returned"
                      \* | "raised"
    ap_session_id,
    ap_suggested,     \* suggested_plan
    custom_plan,
    ap_result,        \* the tuple returned, or the exception raised
    ap_eof,           \* an input() of this activation met end of input
    ap_last_line,     \* what the last input() of this activation delivered
    \* ---- one agent run that may escalate its plan ----
    run_kind,         \* "agent_loop" (plan graph) | "agent_loop2" (session)
    run_pc,           \* "idle" | "loop" | "escalating" | "finished"
                      \* | "raised"
    run_session_id,   \* session.session_id of an agent_loop2 run
    run_site,         \* the escalation point that is waiting for the plan
    run_steps,        \* len(completed_steps) of an agent_loop run
    run_escalations,  \* plan escalations of this run so far
    run_prompts,      \* ask_user_for_plan calls of this run so far
    run_stored,       \* session ids a plan was stored under in this run
    runs_started,
    \* ---- the main loop of an agent_loop2 run ----
    MAX_STEPS,           \* control_manager.py: int(os.getenv("MAX_STEPS", "3"))
    current_step_index,  \* what check_step_limit was last called with
    is_limit_reached,    \* what check_step_limit last reported
    session_stage,       \* "head": before a step | "evaluate": after it
    steps_executed,      \* execute_step calls of the run so far
    \* ---- with_exponential_backoff (one activation) ----
    GOOGLE_ERRORS_AVAILABLE,  \* google.genai.errors could be imported
    bo_pc,            \* "idle" | "try" | "sleep" | "returned" | "raised"
    bo_max_retries,
    bo_max_delay,
    bo_is_async,      \* asyncio.iscoroutinefunction(func)
    attempt,
    last_exception,
    bo_result,        \* the value returned or the exception raised
    bo_outcomes,      \* what each call of func did, in order
    bo_sleeps,        \* the delays slept, in order
    \* ---- the namespace code is executed in (one exec) ----
    sb_pc,            \* "idle" | "running"
    sandbox,          \* safe_globals: the names bound for the code
    sb_builtins,      \* safe_globals["__builtins__"]: the names it holds
    held_modules,     \* modules the executed code has got hold of
    sb_effects,       \* what the executed code did to the outside world
    \* ---- the implicit result-return pass on one parsed source ----
    tree_body,        \* tree.body: the top-level statements, by kind
    passes,           \* times the pass was applied to the tree
    return_counts,    \* ast.Return nodes of the tree, before and after
                      \* each pass
    \* ---- mcp_server_3.py: one RateLimiter and the tasks calling it ----
    requests_per_minute,
    requests,         \* self.requests: the datetimes appended, in seconds
    clock,            \* datetime.now(), in seconds
    acq_pc,           \* per task: "idle" | "sleep"
    acq_now,          \* per task: the local now of a suspended acquire()
    acq_wake,         \* per task: when its asyncio.sleep(wait_time) is due
    acquire_calls,    \* acquire() calls begun
    acquired          \* the times at which acquire() returned, in order

ruc_vars == <<code, max_retries, retry_count, last_error, ruc_pc, ruc_result>>
obs_vars == <<attempts, failures, exec_count, tool_calls, hil_calls, stdin>>
ctx_vars == <<nodes, children, start_node_id, globals_schema, failed_nodes,
              history, nodes_executed>>
es_vars == <<es_pc, es_node, es_iter, variants_tried, es_last_error,
             es_result, variant_results>>
caller_vars == <<calls_made, fallback_id, next_node_id, call_error>>
loop_vars == <<loop_pc, current_node_id, completed_steps,
               node_execution_trace, consecutive_failures, is_simple_math,
               goal_met, final_answer>>
loop_vars_rest == <<loop_pc, completed_steps, node_execution_trace,
                    consecutive_failures, is_simple_math, goal_met,
                    final_answer>>
par_vars == <<par_pc, tool_calls_arg, coros, par_result>>
ap_vars == <<ap_pc, ap_session_id, ap_suggested, custom_plan, ap_result,
             ap_eof, ap_last_line>>
session_vars == <<MAX_STEPS, current_step_index, is_limit_reached,
                  session_stage, steps_executed>>
run_vars == <<run_kind, run_pc, run_session_id, run_site, run_steps,
              run_escalations, run_prompts, run_stored, runs_started,
              session_vars>>
plan_vars == <<session_plans, uuid_counter, ap_vars, run_vars>>
backoff_vars == <<GOOGLE_ERRORS_AVAILABLE, bo_pc, bo_max_retries,
                  bo_max_delay, bo_is_async, attempt, last_exception,
                  bo_result, bo_outcomes, bo_sleeps>>
sandbox_vars == <<sb_pc, sandbox, sb_builtins, held_modules, sb_effects>>
transform_vars == <<tree_body, passes, return_counts>>
limiter_vars == <<requests_per_minute, requests, clock, acq_pc, acq_now,
                  acq_wake, acquire_calls, acquired>>
util_vars == <<transform_vars, limiter_vars>>
ext_vars == <<plan_vars, backoff_vars, sandbox_vars, util_vars>>
vars == <<MAX_RETRIES, ctx_vars, es_vars, caller_vars, loop_vars, par_vars,
          ruc_vars, obs_vars, ext_vars>>

(***************************************************************************)
(* core/control_manager.py                                                 *)
(***************************************************************************)
\* ControlManager.__init__: self.max_retries = max_retries or MAX_RETRIES
\* (a missing or zero argument falls back to the module-level setting)
ControlManager_max_retries(arg, setting) ==
    IF arg # None /\ arg # 0 THEN arg ELSE setting

\* the values of the MAX_RETRIES setting (int(os.getenv("MAX_RETRIES", "3")))
RetrySettings == 0..MaxRetriesCfg

\* MAX_STEPS = int(os.getenv("MAX_STEPS", "3"))
DefaultMaxSteps == 3
\* the values of the MAX_STEPS setting
StepSettings == {0, 1, DefaultMaxSteps}
\* ControlManager.__init__: self.max_steps = max_steps or MAX_STEPS
ControlManager_max_steps(arg, setting) ==
    IF arg # None /\ arg # 0 THEN arg ELSE setting

check_step_limit_above(cm_max_steps, step_index) ==
    step_index > cm_max_steps
\* ControlManager.check_step_limit: if current_step_index >= self.max_steps
check_step_limit(cm_max_steps, step_index) ==
    step_index >= cm_max_steps

(***************************************************************************)
(* core/human_in_loop.py                                                   *)
(***************************************************************************)
DefaultEmptyAnswer == "Tool failed, no user input provided"

\* the step description run_user_code is given; its text plays no role
StepDescription == "step"

DefaultNonInteractive(error_message, step_desc) ==
    "Tool execution failed: " \o error_message \o ". Step: " \o step_desc
        \o ". No user input available (non-interactive mode)."

\* ask_user_for_tool_result(context), given what input() delivers
ask_user_for_tool_result(error_message, step_desc, answer) ==
    IF answer = "EOF" THEN DefaultNonInteractive(error_message, step_desc)
    ELSE IF answer = "" THEN DefaultEmptyAnswer
    ELSE answer

(***************************************************************************)
(* action/executor.py : run_user_code                                      *)
(***************************************************************************)
\* count_function_calls(code): number of ast.Call nodes of the parsed source
count_function_calls(src) == src.calls

\* if func_count > MAX_FUNCTIONS: reject
TooManyFunctions_off(src) == count_function_calls(src) > MAX_FUNCTIONS + 1
TooManyFunctions(src) == count_function_calls(src) > MAX_FUNCTIONS

\* Python truthiness of last_error (None and "" are falsy)
Truthy(e) == e # None /\ e # ""

\* while retry_count < max_retries   (line 147)
LoopCondition(rc, mr) == rc < mr

\* if retry_count < max_retries: sleep and continue, else break
\* (lines 231, 250, 264, 273)
ShouldRetry_never(rc, mr) == FALSE
ShouldRetry(rc, mr) == rc < mr

\* retry_count += 1 in every failure branch (lines 230, 249, 263, 272)
CountFailure_timeout_free(rc, kind) == IF kind = "timeout" THEN rc ELSE rc + 1
CountFailure(rc, kind) == rc + 1

\* the dict run_user_code returns
ResultDict(status, result, error, rc, human) ==
    [status |-> status, result |-> result, error |-> error,
     retry_count |-> rc, human_provided |-> human]

\* str(result_value) of a run that went through
ExecValue == "value"

NoResult == ResultDict("none", None, None, 0, FALSE)
NoSource == Source("none", 0)

\* error texts set in the except clauses
ErrEmpty     == "ValueError: Generated code is empty"
ErrNoStmt    == "ValueError: Parsed code has no statements"
ErrSyntax    == "SyntaxError: invalid syntax"
ErrRuntime   == "RuntimeError: raised"
ErrTimeout   == "Execution timed out"
ErrTool      == "tool error text"
ErrToolBlank == ""

\* how an awaited execution of the compiled code can end
Outcomes(src) ==
    {"ok", "raise", "timeout"}
        \cup (IF src.calls > 0 THEN {"toolerr", "toolerr_blank"} ELSE {})

OutcomeError(o) ==
    CASE o = "raise"         -> ErrRuntime
      [] o = "timeout"       -> ErrTimeout
      [] o = "toolerr"       -> ErrTool
      [] o = "toolerr_blank" -> ErrToolBlank

\* entry of run_user_code: lines 135-144
run_user_code_begin(src) ==
    /\ code' = src
    /\ max_retries' = ControlManager_max_retries(None, MAX_RETRIES)
    /\ retry_count' = 0
    /\ last_error' = None
    /\ ruc_result' = NoResult
    /\ ruc_pc' = "while"
    /\ attempts' = <<>>
    /\ failures' = <<>>
    /\ exec_count' = 0
    /\ tool_calls' = 0
    /\ hil_calls' = 0
    /\ stdin' = "unread"

\* the activation is over: its locals are gone once the caller has the dict
run_user_code_end ==
    /\ code' = NoSource
    /\ max_retries' = 0
    /\ retry_count' = 0
    /\ last_error' = None
    /\ ruc_result' = NoResult
    /\ ruc_pc' = "idle"
    /\ attempts' = <<>>
    /\ failures' = <<>>
    /\ exec_count' = 0
    /\ tool_calls' = 0
    /\ hil_calls' = 0
    /\ stdin' = "unread"

\* failures and tool_calls are recorded for an activation that is called on
\* its own, not for one started from within execute_step
Traced == es_pc = "idle"

\* a failed attempt: last_error = ...; retry_count += 1;
\* if retry_count < max_retries: sleep(1); continue   else: break
RetryOrBreak(kind, err) ==
    /\ last_error' = err
    /\ retry_count' = CountFailure(retry_count, kind)
    /\ failures' = IF Traced THEN Append(failures, kind) ELSE failures
    /\ ruc_pc' = IF ShouldRetry(retry_count', max_retries)
                   THEN "sleep" ELSE "after"
    /\ ruc_result' = ruc_result

\* one pass of the loop body up to the point where the compiled code is
\* awaited: lines 147-215
run_user_code_try ==
    /\ ruc_pc = "while"
    /\ LoopCondition(retry_count, max_retries)
    /\ attempts' = Append(attempts, "attempt")
    /\ UNCHANGED <<code, max_retries, tool_calls, hil_calls, stdin>>
    /\ UNCHANGED <<MAX_RETRIES, ext_vars, ctx_vars, es_vars, caller_vars,
                   loop_vars, par_vars>>
    /\ IF code.kind = "invalid"
         THEN \* count_function_calls raises SyntaxError -> except Exception
              RetryOrBreak("syntax", ErrSyntax) /\ UNCHANGED exec_count
       ELSE IF TooManyFunctions(code)
         THEN /\ ruc_result' = ResultDict("error", None, "Too many functions",
                                           retry_count, FALSE)
              /\ ruc_pc' = "returned"
              /\ UNCHANGED <<retry_count, last_error, exec_count, failures>>
       ELSE IF code.kind = "empty"
         THEN RetryOrBreak("empty", ErrEmpty) /\ UNCHANGED exec_count
       ELSE IF code.kind = "nostmt"
         THEN RetryOrBreak("nostmt", ErrNoStmt) /\ UNCHANGED exec_count
       ELSE /\ exec_count' = exec_count + 1
            /\ ruc_pc' = "running"
            /\ UNCHANGED <<retry_count, last_error, ruc_result, failures>>

\* the awaited execution ends: lines 215-278
run_user_code_outcome ==
    /\ ruc_pc = "running"
    /\ \E o \in Outcomes(code), n \in 0..1 :
        /\ n <= code.calls
        /\ o \in {"toolerr", "toolerr_blank"} => n = 1
        /\ ~Traced => (n = 1 <=> o \in {"toolerr", "toolerr_blank"})
        /\ tool_calls' = IF Traced THEN tool_calls + n ELSE tool_calls
        /\ IF o = "ok"
             THEN /\ ruc_result' = ResultDict("success", ExecValue, None,
                                               retry_count, FALSE)
                  /\ ruc_pc' = "returned"
                  /\ UNCHANGED <<retry_count, last_error, failures>>
             ELSE RetryOrBreak(o, OutcomeError(o))
    /\ UNCHANGED <<code, max_retries, attempts, exec_count, hil_calls, stdin>>
    /\ UNCHANGED <<MAX_RETRIES, ext_vars, ctx_vars, es_vars, caller_vars,
                   loop_vars, par_vars>>

\* await asyncio.sleep(1); continue
run_user_code_sleep ==
    /\ ruc_pc = "sleep"
    /\ ruc_pc' = "while"
    /\ attempts' = Append(attempts, "sleep")
    /\ UNCHANGED <<code, max_retries, retry_count, last_error, ruc_result,
                   failures, exec_count, tool_calls, hil_calls, stdin>>
    /\ UNCHANGED <<MAX_RETRIES, ext_vars, ctx_vars, es_vars, caller_vars,
                   loop_vars, par_vars>>

\* the loop is left (break, or its condition is false): lines 280-307
LoopLeft ==
    \/ ruc_pc = "after"
    \/ ruc_pc = "while" /\ ~LoopCondition(retry_count, max_retries)

run_user_code_after ==
    /\ LoopLeft
    /\ ruc_pc' = "returned"
    /\ IF Truthy(last_error)
         THEN \E answer \in StdinAnswers :
                /\ stdin' = answer
                /\ hil_calls' = hil_calls + 1
                /\ ruc_result' =
                     ResultDict("success",
                                ask_user_for_tool_result(
                                    last_error, StepDescription, answer),
                                None, retry_count, TRUE)
         ELSE /\ ruc_result' = ResultDict("error", None, "Unknown error",
                                           retry_count, FALSE)
              /\ UNCHANGED <<stdin, hil_calls>>
    /\ UNCHANGED <<code, max_retries, retry_count, last_error, attempts,
                   failures, exec_count, tool_calls>>
    /\ UNCHANGED <<MAX_RETRIES, ext_vars, ctx_vars, es_vars, caller_vars,
                   loop_vars, par_vars>>

(***************************************************************************)
(* SpecExec: run_user_code called on its own with any source               *)
(***************************************************************************)
NoStepResult ==
    [status |-> "none", result |-> None, error |-> None,
     variants_tried |-> <<>>, variant_succeeded |-> None, node_id |-> None]

EmptyDict == <<>>

(***************************************************************************)
(* core/user_plan_storage.py and core/human_in_loop.py : ask_user_for_plan *)
(***************************************************************************)
\* JSON values of a plan typed by the human: a string or a number
JStr(s) == [type |-> "str", v |-> s]
JNum(d) == [type |-> "num", v |-> d]
\* bool(value) of a JSON value
JTruthy(val) == val.v # "" /\ val.v # "0"

\* A line the input channel delivers: plain text, text in braces that
\* json.loads decodes to the object `payload`, or text in braces that
\* json.loads rejects.
TextLine(t) == [kind |-> "text", text |-> t, payload |-> EmptyDict]
JsonLine(t, payload) == [kind |-> "object", text |-> t, payload |-> payload]
BadJsonLine == [kind |-> "malformed", text |-> "{oops}", payload |-> EmptyDict]
\* input() raising EOFError or KeyboardInterrupt
EndOfInput == [kind |-> "eof", text |-> "", payload |-> EmptyDict]
\* nothing was read yet
NoLine == [kind |-> "none", text |-> "", payload |-> EmptyDict]

PlanWithAnswer == ("final_answer" :> JStr("42"))
PlanWithEmptyAnswer == ("final_answer" :> JStr(""))
PlanWithNumber == ("final_answer" :> JNum("42"))
PlanWithoutAnswer == ("confidence" :> JStr("0.9"))

\* what the human may type at "Your choice: ", at the JSON prompt and at
\* a prompt of the plan-step loop
ChoiceLines ==
    {TextLine(""), TextLine("JSON"), TextLine("modify"), TextLine("custom"),
     TextLine("step one")}
JsonLines ==
    {JsonLine("{final_answer: 42}", PlanWithAnswer),
     JsonLine("{final_answer: }", PlanWithEmptyAnswer),
     JsonLine("{final_answer: 42 (number)}", PlanWithNumber),
     JsonLine("{confidence: 0.9}", PlanWithoutAnswer),
     BadJsonLine, TextLine("step one")}
StepLines == {TextLine(""), TextLine("end"), TextLine("step one")}

\* str.upper() and str.lower() on the texts above
Upper(t) == IF t = "end" THEN "END" ELSE t
Lower(t) == IF t = "JSON" THEN "json" ELSE t

\* Optional[dict]: None, or the dict
NoPlan == [is_none |-> TRUE, dict |-> EmptyDict]
SomePlan(d) == [is_none |-> FALSE, dict |-> d]
\* bool(x) of an Optional[dict]
PlanTruthy(x) == ~x.is_none /\ DOMAIN x.dict # {}

\* UserPlanStorage.parse_user_input(user_input)
RequiredField == "final_answer"
parse_user_input(line) ==
    IF line.kind \in {"object", "malformed"}
      THEN \* starts with { and ends with }
           IF line.kind = "object" /\ RequiredField \in DOMAIN line.payload
             THEN SomePlan(line.payload)
             ELSE NoPlan
      ELSE NoPlan

\* UserPlanStorage.store_user_plan(session_id, user_plan_data)
store_user_plan(plans, session_id, user_plan_data) ==
    (session_id :> user_plan_data) @@ plans
\* UserPlanStorage.get_user_plan(session_id)
get_user_plan(plans, session_id) ==
    IF session_id \in DOMAIN plans THEN SomePlan(plans[session_id])
                                   ELSE NoPlan
\* UserPlanStorage.has_user_plan(session_id)
has_user_plan(plans, session_id) == session_id \in DOMAIN plans
\* UserPlanStorage.clear_user_plan(session_id)
clear_user_plan(plans, session_id) ==
    [id \in DOMAIN plans \ {session_id} |-> plans[id]]

\* str(uuid.uuid4()): the n-th identifier drawn
Uuid(n) == "uuid-" \o ToString(n)

\* what ask_user_for_plan hands back: (plan_list, user_plan_dict), or the
\* exception that left it
PlanResult(plan_list, user_plan_dict) ==
    [raised |-> None, plan |-> plan_list, user_plan_dict |-> user_plan_dict]
PlanRaised(exc) == [raised |-> exc, plan |-> <<>>, user_plan_dict |-> NoPlan]
NoPlanResult == [raised |-> "none", plan |-> <<>>, user_plan_dict |-> NoPlan]

\* no plan is stored, nobody is being asked, no run is going on
PlanIdle ==
    /\ session_plans = EmptyDict
    /\ uuid_counter = 0
    /\ ap_pc = "idle"
    /\ ap_session_id = None
    /\ ap_suggested = <<>>
    /\ custom_plan = <<>>
    /\ ap_result = NoPlanResult
    /\ ap_eof = FALSE
    /\ ap_last_line = NoLine
    /\ run_kind = None
    /\ run_pc = "idle"
    /\ run_session_id = None
    /\ run_site = None
    /\ run_steps = 0
    /\ run_escalations = 0
    /\ run_prompts = 0
    /\ run_stored = {}
    /\ runs_started = 0
    /\ current_step_index = 0
    /\ is_limit_reached = FALSE
    /\ session_stage = None
    /\ steps_executed = 0

(***************************************************************************)
(* utils/backoff.py                                                        *)
(***************************************************************************)
\* an exception func may raise: its class, its code attribute and whether
\* str(exception).lower() contains '429', 'resource_exhausted' or
\* 'rate limit'
Exc(cls, exc_code, mentions) ==
    [cls |-> cls, code |-> exc_code, mentions |-> mentions]
NoException == Exc("none", 0, FALSE)
Exceptions ==
    {Exc("ServerError", 429, FALSE), Exc("ServerError", 503, FALSE),
     Exc("ServerError", 500, TRUE), Exc("ValueError", 0, FALSE),
     Exc("RuntimeError", 0, TRUE)}

\* is_429_error(exception)
is_429_error(available, exception) ==
    IF ~available THEN FALSE
    ELSE IF exception.cls = "ServerError"
              /\ (exception.code = 429 \/ exception.mentions)
      THEN TRUE
    ELSE exception.mentions

\* if attempt < max_retries: retries are left
RetriesLeft_always(att, retries) == TRUE
RetriesLeft(att, retries) == att < retries

\* what a call of func did
FuncValue == [kind |-> "value", exc |-> NoException]
FuncRaised(e) == [kind |-> "raised", exc |-> e]
NoOutcome == [kind |-> "none", exc |-> NoException]

\* fixed_delays = [6.0, 10.0, 18.0, 60.0]
fixed_delays == <<6, 10, 18, 60>>
Min(a, b) == IF a < b THEN a ELSE b
\* delay_index = min(attempt, len(fixed_delays) - 1), 0-based;
\* current_delay = min(fixed_delays[delay_index], max_delay)
current_delay(att, max_delay) ==
    Min(fixed_delays[Min(att, Len(fixed_delays) - 1) + 1], max_delay)

\* with_exponential_backoff is not being called
BackoffIdle ==
    /\ GOOGLE_ERRORS_AVAILABLE = TRUE
    /\ bo_pc = "idle"
    /\ bo_max_retries = 0
    /\ bo_max_delay = 0
    /\ bo_is_async = FALSE
    /\ attempt = 0
    /\ last_exception = NoException
    /\ bo_result = NoOutcome
    /\ bo_outcomes = <<>>
    /\ bo_sleeps = <<>>

\* no code is being executed
SandboxIdle ==
    /\ sb_pc = "idle"
    /\ sandbox = {}
    /\ sb_builtins = {}
    /\ held_modules = {}
    /\ sb_effects = {}

\* no tree is being transformed
TransformIdle ==
    /\ tree_body = <<>>
    /\ passes = 0
    /\ return_counts = <<>>

LimiterIdle ==
    /\ requests_per_minute = None
    /\ requests = <<>>
    /\ clock = 0
    /\ acq_pc = <<>>
    /\ acq_now = <<>>
    /\ acq_wake = <<>>
    /\ acquire_calls = 0
    /\ acquired = <<>>

UtilIdle == TransformIdle /\ LimiterIdle

ExtIdle ==
    /\ MAX_STEPS = DefaultMaxSteps
    /\ UtilIdle
    /\ call_error = None
    /\ PlanIdle
    /\ BackoffIdle
    /\ SandboxIdle

InitIdle ==
    /\ es_pc = "idle"
    /\ es_node = None
    /\ es_iter = 0
    /\ variants_tried = <<>>
    /\ es_last_error = None
    /\ es_result = NoStepResult
    /\ variant_results = <<>>
    /\ calls_made = 0
    /\ fallback_id = None
    /\ next_node_id = None
    /\ par_pc = "idle"
    /\ tool_calls_arg = <<>>
    /\ coros = <<>>
    /\ par_result = <<>>
    /\ code = NoSource
    /\ max_retries = 0
    /\ retry_count = 0
    /\ last_error = None
    /\ ruc_pc = "idle"
    /\ ruc_result = NoResult
    /\ attempts = <<>>
    /\ failures = <<>>
    /\ exec_count = 0
    /\ tool_calls = 0
    /\ hil_calls = 0
    /\ stdin = "unread"

\* no query is being run
LoopIdle ==
    /\ loop_pc = "idle"
    /\ current_node_id = None
    /\ completed_steps = <<>>
    /\ node_execution_trace = <<>>
    /\ consecutive_failures = 0
    /\ is_simple_math = FALSE
    /\ goal_met = FALSE
    /\ final_answer = None

InitExec ==
    /\ MAX_RETRIES \in RetrySettings
    /\ nodes = EmptyDict
    /\ children = EmptyDict
    /\ start_node_id = None
    /\ globals_schema = EmptyDict
    /\ failed_nodes = <<>>
    /\ history = <<>>
    /\ nodes_executed = <<>>
    /\ InitIdle
    /\ ExtIdle
    /\ LoopIdle

CallRunUserCode ==
    /\ ruc_pc = "idle"
    /\ \E src \in Sources : run_user_code_begin(src)
    /\ UNCHANGED <<MAX_RETRIES, ext_vars, ctx_vars, es_vars, caller_vars,
                   loop_vars, par_vars>>

NextExec ==
    \/ CallRunUserCode
    \/ run_user_code_try
    \/ run_user_code_outcome
    \/ run_user_code_sleep
    \/ run_user_code_after

SpecExec == InitExec /\ [][NextExec]_vars

(***************************************************************************)
(* core/plan_graph.py : StepNode, CodeVariant, PlanGraph                   *)
(***************************************************************************)
CodeVariant(name, source) ==
    [name |-> name, source |-> source, retries |-> 0]

StepNode(index, variants, is_fallback) ==
    [index |-> index, variants |-> variants, status |-> "PENDING",
     is_fallback |-> is_fallback, error |-> None, globals_delta |-> EmptyDict]

TerminalStatuses == {"COMPLETED", "FAILED", "SKIPPED"}

has_node(g_nodes, node_id) == node_id \in DOMAIN g_nodes

get_children(g_children, node_id) ==
    IF node_id \in DOMAIN g_children THEN g_children[node_id] ELSE <<>>

add_node(g_nodes, node) == (node.index :> node) @@ g_nodes

\* a node with zero variants is invalid and fails the build step
NodeAccepted_any(node) == TRUE
NodeAccepted(node) == Len(node.variants) >= 1

add_edge(g_children, from, to) ==
    (from :> Append(get_children(g_children, from), to)) @@ g_children

(***************************************************************************)
(* decision/decision.py : build_initial_plan_graph, add_fallback_node      *)
(***************************************************************************)
VariantLetters == <<"A", "B", "C">>

\* step_variants = [CodeVariant(f"{i}A", ...), (f"{i}B", ...), (f"{i}C", ...)]
StepVariants(i, srcs) ==
    [k \in 1..3 |-> CodeVariant(ToString(i) \o VariantLetters[k], srcs[k])]

\* the chain 0 -> 1 -> ... -> n-1 of build_initial_plan_graph;
\* srcs are the sources of a step's three variants
ChainNodes(n, srcs) ==
    [id \in {ToString(i) : i \in 0..(n - 1)} |->
        LET i == CHOOSE j \in 0..(n - 1) : ToString(j) = id
        IN  StepNode(id, StepVariants(i, srcs), FALSE)]

\* the chain without its last edge
ChainChildren_short(n) ==
    [id \in {ToString(i) : i \in 0..(n - 3)} |->
        LET i == CHOOSE j \in 0..(n - 3) : ToString(j) = id
        IN  <<ToString(i + 1)>>]

ChainChildren(n) ==
    [id \in {ToString(i) : i \in 0..(n - 2)} |->
        LET i == CHOOSE j \in 0..(n - 2) : ToString(j) = id
        IN  <<ToString(i + 1)>>]

\* f"{failed_step_id}F{counter}"
FallbackId(failed_step_id, counter) ==
    failed_step_id \o "F" \o ToString(counter)

\* while graph.has_node(f"{failed_step_id}F{counter}"): counter += 1
ProbeCounter_noloop(g_nodes, failed_step_id, counter) == counter
RECURSIVE ProbeCounter(_, _, _)
ProbeCounter(g_nodes, failed_step_id, counter) ==
    IF has_node(g_nodes, FallbackId(failed_step_id, counter))
      THEN ProbeCounter(g_nodes, failed_step_id, counter + 1)
      ELSE counter

\* the id add_fallback_node gives the new node (lines 750-759)
NewFallbackId_first(g_nodes, failed_step_id) == FallbackId(failed_step_id, 1)
NewFallbackId(g_nodes, failed_step_id) ==
    IF has_node(g_nodes, FallbackId(failed_step_id, 1))
      THEN FallbackId(failed_step_id, ProbeCounter(g_nodes, failed_step_id, 2))
      ELSE FallbackId(failed_step_id, 1)

\* the node add_fallback_node creates (lines 761-772)
FallbackNode_plain(new_id) ==
    StepNode(new_id, <<CodeVariant(new_id \o "A", SrcComment)>>, FALSE)
FallbackNode(new_id) ==
    StepNode(new_id,
             <<CodeVariant(new_id \o "A", SrcComment)>>,
             TRUE)

\* fallback_id = add_fallback_node(graph, failed_step_id) on the context's
\* graph
add_fallback_node(failed_step_id) ==
    LET new_id == NewFallbackId(nodes, failed_step_id) IN
    /\ nodes' = add_node(nodes, FallbackNode(new_id))
    /\ children' = add_edge(children, failed_step_id, new_id)
    /\ fallback_id' = new_id

\* for child_id in children: if child_node and child_node.is_fallback
FallbackChildren(g_nodes, g_children, node_id) ==
    SelectSeq(get_children(g_children, node_id),
              LAMBDA c : has_node(g_nodes, c) /\ g_nodes[c].is_fallback)

\* Decision.select_next_node(graph, current_node_id, perception)
\* (lines 779-815); the perception argument is not read
select_next_node_first(g_nodes, g_children, node_id) ==
    IF ~has_node(g_nodes, node_id) THEN None
    ELSE IF get_children(g_children, node_id) # <<>>
           THEN get_children(g_children, node_id)[1]
    ELSE None
select_next_node(g_nodes, g_children, node_id) ==
    IF ~has_node(g_nodes, node_id) THEN None
    ELSE IF /\ g_nodes[node_id].status = "FAILED"
            /\ FallbackChildren(g_nodes, g_children, node_id) # <<>>
           THEN FallbackChildren(g_nodes, g_children, node_id)[1]
    ELSE IF get_children(g_children, node_id) # <<>>
           THEN get_children(g_children, node_id)[1]
    ELSE None

(***************************************************************************)
(* core/context_manager.py                                                 *)
(***************************************************************************)
InSeq(x, seq) == \E i \in 1..Len(seq) : seq[i] = x

\* result=str(result) if result else None
LogResult(result) == IF result = None \/ result = "" THEN None ELSE result

StepResultEvent(node_id, success, result, error) ==
    [event |-> "step_result", node_id |-> node_id, success |-> success,
     result |-> LogResult(result), error |-> error]

GlobalsUpdatedEvent(updates) ==
    [event |-> "globals_updated", updates |-> updates]

\* ContextManager.log: self.history.append({"event": event, **kwargs})
log_replace(h, entry) == <<entry>>
log(h, entry) == Append(h, entry)

\* self.globals_schema.update(updates)
dict_update_replace(d, updates) == updates
dict_update(d, updates) == updates @@ d

\* ContextManager.update_globals(updates) (lines 65-68)
update_globals(updates) ==
    /\ globals_schema' = dict_update(globals_schema, updates)
    /\ history' = log(history, GlobalsUpdatedEvent(updates))

\* node.status = StepStatus.COMPLETED if success else StepStatus.FAILED
StatusAfter_unset(old, success) == old
StatusAfter(old, success) == IF success THEN "COMPLETED" ELSE "FAILED"

\* node = self.plan_graph.get_node(node_id); if not node: raise ValueError
NodeNotFound_never(g_nodes, node_id) == FALSE
NodeNotFound(g_nodes, node_id) == ~has_node(g_nodes, node_id)

\* ContextManager.register_step_result (lines 25-63) from line 38 on: the
\* node was found
register_step_result(node_id, success, result, globals_delta, error) ==
    /\ ~NodeNotFound(nodes, node_id)
    /\ nodes' = [nodes EXCEPT ![node_id] =
                    [@ EXCEPT !.status = StatusAfter(@, success),
                              !.error = error,
                              !.globals_delta =
                                  IF DOMAIN globals_delta # {}
                                    THEN globals_delta ELSE @]]
    /\ history' =
         LET logged ==
               log(history, StepResultEvent(node_id, success, result, error))
         IN  IF DOMAIN globals_delta # {}
               THEN log(logged, GlobalsUpdatedEvent(globals_delta))
               ELSE logged
    /\ nodes_executed' =
         IF InSeq(node_id, nodes_executed) THEN nodes_executed
         ELSE Append(nodes_executed, node_id)
    /\ failed_nodes' =
         IF ~success /\ ~InSeq(node_id, failed_nodes)
           THEN Append(failed_nodes, node_id) ELSE failed_nodes
    /\ globals_schema' =
         IF DOMAIN globals_delta # {}
           THEN dict_update(globals_schema, globals_delta)
           ELSE globals_schema
    /\ UNCHANGED <<children, start_node_id>>

(***************************************************************************)
(* action/executor.py : run_code_variant, execute_step                     *)
(***************************************************************************)
StepResult(status, result, error, tried, succeeded, node_id) ==
    [status |-> status, result |-> result, error |-> error,
     variants_tried |-> tried, variant_succeeded |-> succeeded,
     node_id |-> node_id]

\* globals_delta = {"last_result": result, "last_node": node.index}
SuccessDelta(result, index) ==
    ("last_result" :> result) @@ ("last_node" :> index)

\* entry of execute_step (lines 387-391)
execute_step_begin(node_id) ==
    /\ es_pc' = "for"
    /\ es_node' = node_id
    /\ es_iter' = 1
    /\ variants_tried' = <<>>
    /\ es_last_error' = None
    /\ es_result' = NoStepResult
    /\ variant_results' = <<>>

\* the caller has the returned dict and goes on: the activation is over
execute_step_end ==
    /\ es_pc' = "idle"
    /\ es_node' = None
    /\ es_iter' = 0
    /\ variants_tried' = <<>>
    /\ es_last_error' = None
    /\ es_result' = NoStepResult
    /\ variant_results' = <<>>

\* run_code_variant: if result.get("status") == "success" (line 358)
Succeeded_always(result) == TRUE
Succeeded(result) == result.status = "success"

\* for variant in node.variants: the position of the variant taken next
NextVariant_skip(i) == i + 2
NextVariant(i) == i + 1

\* the loop takes the next variant: variants_tried.append(variant.name),
\* run_code_variant increments variant.retries and calls run_user_code
execute_step_try_variant ==
    /\ es_pc = "for"
    /\ es_iter <= Len(nodes[es_node].variants)
    /\ LET variant == nodes[es_node].variants[es_iter] IN
        /\ variants_tried' = Append(variants_tried, variant.name)
        /\ nodes' = [nodes EXCEPT
                        ![es_node].variants[es_iter].retries = @ + 1]
        /\ run_user_code_begin(variant.source)
    /\ es_pc' = "await"
    /\ UNCHANGED <<MAX_RETRIES, ext_vars, children, start_node_id, globals_schema,
                   failed_nodes, history, nodes_executed, es_node, es_iter,
                   es_last_error, es_result, variant_results, caller_vars,
                   loop_vars, par_vars>>

\* run_code_variant returns (success, result, error); on success the
\* result is registered and execute_step returns (lines 358-425)
execute_step_variant_done ==
    /\ es_pc = "await"
    /\ ruc_pc = "returned"
    /\ run_user_code_end
    /\ variant_results' = Append(variant_results, ruc_result)
    /\ LET variant == nodes[es_node].variants[es_iter] IN
       IF Succeeded(ruc_result)
         THEN /\ register_step_result(
                     es_node, TRUE, ruc_result.result,
                     SuccessDelta(ruc_result.result, es_node), None)
              /\ es_result' = StepResult("success", ruc_result.result, None,
                                         variants_tried, variant.name, es_node)
              /\ es_pc' = "returned"
              /\ UNCHANGED <<es_iter, es_last_error>>
         ELSE /\ es_last_error' = ruc_result.error
              /\ es_iter' = NextVariant(es_iter)
              /\ es_pc' = "for"
              /\ UNCHANGED <<ctx_vars, es_result>>
    /\ UNCHANGED <<MAX_RETRIES, ext_vars, es_node, variants_tried, caller_vars,
                   loop_vars, par_vars>>

\* the globals_delta of the failure registration: the argument is left
\* out (lines 428-433), so it is None
FailureDelta_last_node(node_id) == ("last_node" :> node_id)
FailureDelta(node_id) == EmptyDict

\* the loop is over and no variant succeeded (lines 427-440)
execute_step_all_failed ==
    /\ es_pc = "for"
    /\ es_iter > Len(nodes[es_node].variants)
    /\ register_step_result(es_node, FALSE, None, FailureDelta(es_node),
                            es_last_error)
    /\ es_result' =
         StepResult("error",
                    None,
                    IF Truthy(es_last_error)
                      THEN es_last_error ELSE "All variants failed",
                    variants_tried, None, es_node)
    /\ es_pc' = "returned"
    /\ UNCHANGED <<MAX_RETRIES, ext_vars, es_node, es_iter, variants_tried,
                   es_last_error, variant_results, caller_vars, loop_vars,
                   par_vars, ruc_vars, obs_vars>>

(***************************************************************************)
(* Spec: a caller that owns one ContextManager whose plan graph is the     *)
(* single step "0" built for a simple query, and issues, one after the     *)
(* other, execute_step, register_step_result and add_fallback_node on it.  *)
(***************************************************************************)
\* operations the caller issues
MaxCalls == 2

\* sources the step's variants are built with: one that parses to no
\* statement, one that runs, one over the call budget
VariantSources ==
    {SrcComment, Source("ok", 1), Source("ok", MAX_FUNCTIONS + 1)}

InitContext ==
    /\ start_node_id = "0"
    /\ globals_schema = EmptyDict
    /\ failed_nodes = <<>>
    /\ history = <<>>
    /\ nodes_executed = <<>>

Init ==
    /\ MAX_RETRIES \in RetrySettings
    /\ \E srcs \in [1..3 -> VariantSources] :
        /\ nodes = ChainNodes(1, srcs)
        /\ children = ChainChildren(1)
    /\ InitContext
    /\ InitIdle
    /\ ExtIdle
    /\ LoopIdle

CallerIdle == es_pc \in {"idle", "returned"} /\ calls_made < MaxCalls

CallExecuteStep ==
    /\ CallerIdle
    /\ calls_made' = calls_made + 1
    /\ \E node_id \in DOMAIN nodes : execute_step_begin(node_id)
    /\ call_error' = None
    /\ UNCHANGED <<MAX_RETRIES, ext_vars, ctx_vars, fallback_id, next_node_id,
                   loop_vars, par_vars, ruc_vars, obs_vars>>

CallRegisterStepResult ==
    /\ CallerIdle
    /\ calls_made' = calls_made + 1
    /\ \E node_id \in DOMAIN nodes, success \in BOOLEAN :
         IF success
           THEN register_step_result(node_id, TRUE, ExecValue,
                                     SuccessDelta(ExecValue, node_id), None)
           ELSE register_step_result(node_id, FALSE, None, EmptyDict,
                                     ErrRuntime)
    /\ execute_step_end
    /\ call_error' = None
    /\ UNCHANGED <<MAX_RETRIES, ext_vars, fallback_id, next_node_id, loop_vars,
                   par_vars, ruc_vars, obs_vars>>

CallAddFallbackNode ==
    /\ CallerIdle
    /\ calls_made' = calls_made + 1
    /\ \E failed_step_id \in DOMAIN nodes : add_fallback_node(failed_step_id)
    /\ execute_step_end
    /\ call_error' = None
    /\ UNCHANGED <<MAX_RETRIES, ext_vars, start_node_id, globals_schema,
                   failed_nodes, history, nodes_executed, next_node_id, loop_vars,
                   par_vars, ruc_vars, obs_vars>>

\* a builder adds the step after step 0 the way build_initial_plan_graph
\* does (graph.add_node(step); graph.add_edge(str(i-1), str(i))), with the
\* variants it was given; a step without variants is refused by the graph
CallAddNode ==
    /\ CallerIdle
    /\ calls_made' = calls_made + 1
    /\ ~has_node(nodes, "1")
    /\ \E step_variants \in {<<>>, <<CodeVariant("1A", SrcComment)>>} :
        LET step == StepNode("1", step_variants, FALSE)
        IN  IF NodeAccepted(step)
              THEN /\ nodes' = add_node(nodes, step)
                   /\ children' = add_edge(children, "0", "1")
                   /\ call_error' = None
              ELSE /\ call_error' = "ValueError"
                   /\ UNCHANGED <<nodes, children>>
    /\ execute_step_end
    /\ UNCHANGED <<MAX_RETRIES, ext_vars,
                   start_node_id, globals_schema, failed_nodes, history,
                   nodes_executed, fallback_id, next_node_id, loop_vars,
                   par_vars, ruc_vars, obs_vars>>

Next ==
    \/ CallExecuteStep
    \/ CallRegisterStepResult
    \/ CallAddFallbackNode
    \/ CallAddNode
    \/ execute_step_try_variant
    \/ execute_step_variant_done
    \/ execute_step_all_failed
    \/ run_user_code_try
    \/ run_user_code_outcome
    \/ run_user_code_sleep
    \/ run_user_code_after

Spec == Init /\ [][Next]_vars

(***************************************************************************)
(* SpecGraph: the ContextManager and plan graph of a complex query (a      *)
(* chain of steps) under any sequence of add_fallback_node,                *)
(* register_step_result, update_globals and select_next_node calls         *)
(***************************************************************************)
\* steps of the built chain
MaxChain == 3
\* operations issued on the graph
MaxGraphCalls == 3

\* a generated variant source: "result = ...\nreturn result"
SrcGenerated == Source("ok", 0)

InitGraph ==
    /\ MAX_RETRIES = DefaultMaxRetries
    /\ \E n \in 1..MaxChain :
        /\ nodes = ChainNodes(n, [k \in 1..3 |-> SrcGenerated])
        /\ children = ChainChildren(n)
    /\ InitContext
    /\ InitIdle
    /\ ExtIdle
    /\ LoopIdle

\* a node id that is in no graph
NoSuchNode == "9"

\* what update_globals is called with
GlobalsUpdates == {("x" :> "5"), ("last_result" :> "5")}

GraphCall ==
    /\ calls_made < MaxGraphCalls
    /\ calls_made' = calls_made + 1

\* the call returned; register_step_result raised ValueError('Node ... not
\* found in plan graph') before it changed anything (lines 34-36)
CallReturned == call_error' = None
CallRaisedNotFound ==
    /\ call_error' = "ValueError"
    /\ UNCHANGED ctx_vars

\* the caller goes on to another operation: the last select_next_node
\* call's argument and result are dropped
SelectDropped ==
    /\ current_node_id' = None
    /\ next_node_id' = None

GraphAddFallbackNode ==
    /\ GraphCall
    /\ \E failed_step_id \in DOMAIN nodes : add_fallback_node(failed_step_id)
    /\ CallReturned
    /\ SelectDropped
    /\ UNCHANGED <<MAX_RETRIES, ext_vars, start_node_id, globals_schema, failed_nodes,
                   history, nodes_executed, es_vars, loop_vars_rest,
                   par_vars, ruc_vars, obs_vars>>

GraphRegisterStepResult ==
    /\ GraphCall
    /\ \E node_id \in DOMAIN nodes \cup {NoSuchNode}, success \in BOOLEAN :
         IF NodeNotFound(nodes, node_id)
           THEN CallRaisedNotFound
           ELSE /\ CallReturned
                /\ IF success
                     THEN register_step_result(
                              node_id, TRUE, ExecValue,
                              SuccessDelta(ExecValue, node_id), None)
                     ELSE register_step_result(node_id, FALSE, None,
                                               EmptyDict, ErrRuntime)
    /\ SelectDropped
    /\ UNCHANGED <<MAX_RETRIES, ext_vars, es_vars, fallback_id, loop_vars_rest,
                   par_vars, ruc_vars, obs_vars>>

GraphUpdateGlobals ==
    /\ GraphCall
    /\ \E updates \in GlobalsUpdates : update_globals(updates)
    /\ CallReturned
    /\ SelectDropped
    /\ UNCHANGED <<MAX_RETRIES, ext_vars, nodes, children, start_node_id, failed_nodes,
                   nodes_executed, es_vars, fallback_id, loop_vars_rest,
                   par_vars, ruc_vars, obs_vars>>

GraphSelectNextNode ==
    /\ GraphCall
    /\ \E node_id \in DOMAIN nodes \cup {NoSuchNode} :
         /\ current_node_id' = node_id
         /\ next_node_id' = select_next_node(nodes, children, node_id)
    /\ CallReturned
    /\ UNCHANGED <<MAX_RETRIES, ext_vars, ctx_vars, es_vars, fallback_id,
                   loop_vars_rest, par_vars, ruc_vars, obs_vars>>

NextGraph ==
    \/ GraphAddFallbackNode
    \/ GraphRegisterStepResult
    \/ GraphUpdateGlobals
    \/ GraphSelectNextNode

SpecGraph == InitGraph /\ [][NextGraph]_vars

(***************************************************************************)
(* agent/agent_loop.py : AgentLoop.run, from the built plan graph on       *)
(***************************************************************************)
\* max_steps = 10 (line 200)
max_steps == 10
\* max_consecutive_failures = 3 (line 202)
max_consecutive_failures == 3

\* steps of the plan built for the query
MaxLoopChain == 2
\* execute_step calls of one run
MaxLoopSteps == 3

Query == "query"
\* what FormatterAgent.format_report produces
FormattedAnswer == "answer"
\* final_answer of the JSON plan the human typed
UserAnswer == "user answer"
\* what ask_user_for_plan delivers: a JSON plan with final_answer, a custom
\* plan, or the suggested plan accepted / no input
PlanAnswers == {"final_answer", "custom_plan", "accept"}

\* sources of a step's variants: generated code that runs, or code over
\* the call budget
LoopSources == {SrcGenerated, Source("ok", MAX_FUNCTIONS + 1)}

\* the pair (globals_schema, history) a sequence of ContextManager calls
\* works on
Ctx(g, h) == [g |-> g, h |-> h]
\* ctx.update_globals(updates)
ctx_update_globals(st, updates) ==
    Ctx(dict_update(st.g, updates), log(st.h, GlobalsUpdatedEvent(updates)))
\* ctx.log(event, ...)
ctx_log(st, entry) == Ctx(st.g, log(st.h, entry))

RootPerceptionEvent ==
    [event |-> "root_perception", route |-> "decision", goal_met |-> FALSE]
PlanGraphCreatedEvent(node_count) ==
    [event |-> "plan_graph_created", node_count |-> node_count]
StepPerceptionEvent(node_id, gm) ==
    [event |-> "step_perception", node_id |-> node_id,
     route |-> IF gm THEN "summarize" ELSE "decision", goal_met |-> gm]
FallbackAddedEvent(failed_node, fallback_node) ==
    [event |-> "fallback_added", failed_node |-> failed_node,
     fallback_node |-> fallback_node]

\* {"human_in_loop_triggered": True, "hil_reason": reason}
HilDelta(reason) ==
    ("human_in_loop_triggered" :> "True") @@ ("hil_reason" :> reason)

\* an entry of completed_steps
CompletedStep(node_id, result) == [node_id |-> node_id, result |-> result]

\* a result that counts as an answer (lines 341, 504, 529-531)
UsableResult(result) == Truthy(result) /\ result # DefaultEmptyAnswer

\* ctx.plan_graph = self.decision.build_initial_plan_graph(query): the plan
\* is built again for the same query, every step PENDING
RebuiltNodes(g_nodes) ==
    [id \in {i \in DOMAIN g_nodes : ~g_nodes[i].is_fallback} |->
        StepNode(id,
                 [k \in 1..Len(g_nodes[id].variants) |->
                     CodeVariant(g_nodes[id].variants[k].name,
                                 g_nodes[id].variants[k].source)],
                 FALSE)]
RebuiltChildren(g_nodes) ==
    ChainChildren(Cardinality({i \in DOMAIN g_nodes : ~g_nodes[i].is_fallback}))

\* run up to line 202: ContextManager(), update_globals({"query": query}),
\* no memory match, root perception routes to decision, the plan graph is
\* built
InitLoop ==
    /\ MAX_RETRIES \in RetrySettings
    /\ \E n \in 1..MaxLoopChain, srcs \in [1..3 -> LoopSources] :
        /\ nodes = ChainNodes(n, srcs)
        /\ children = ChainChildren(n)
        /\ history = <<GlobalsUpdatedEvent("query" :> Query),
                       RootPerceptionEvent, PlanGraphCreatedEvent(n)>>
    /\ start_node_id = "0"
    /\ globals_schema = ("query" :> Query)
    /\ failed_nodes = <<>>
    /\ nodes_executed = <<>>
    /\ InitIdle
    /\ ExtIdle
    /\ loop_pc = "head"
    /\ current_node_id = "0"
    /\ completed_steps = <<>>
    /\ node_execution_trace = <<>>
    /\ consecutive_failures = 0
    /\ is_simple_math \in BOOLEAN
    /\ goal_met = FALSE
    /\ final_answer = None

\* while current_node_id is not None ... if not node: break
LoopContinues ==
    current_node_id # None /\ has_node(nodes, current_node_id)

\* lines 204-231, the head of the loop body: a COMPLETED or SKIPPED node
\* is passed over, any other node is handed to execute_step, which is
\* awaited
loop_head_upto(step_limit) ==
    /\ loop_pc = "head"
    /\ LoopContinues
    /\ IF nodes[current_node_id].status \in {"COMPLETED", "SKIPPED"}
         THEN /\ current_node_id' =
                   select_next_node(nodes, children, current_node_id)
              /\ UNCHANGED <<es_vars, loop_pc>>
         ELSE /\ Len(node_execution_trace) < step_limit
              /\ execute_step_begin(current_node_id)
              /\ loop_pc' = "await"
              /\ UNCHANGED current_node_id
    /\ UNCHANGED <<MAX_RETRIES, ext_vars, ctx_vars, caller_vars, completed_steps,
                   node_execution_trace, consecutive_failures,
                   is_simple_math, goal_met, final_answer, par_vars,
                   ruc_vars, obs_vars>>
loop_head == loop_head_upto(MaxLoopSteps)

\* the awaited execute_step has returned its dict
StepReturned_early == es_pc \in {"for", "returned"}
StepReturned == es_pc = "returned"

\* lines 233-489: the rest of the loop body once execute_step has returned
loop_step_returned ==
    /\ loop_pc = "await"
    /\ StepReturned
    /\ \E gm \in BOOLEAN, pa1 \in PlanAnswers, pa2 \in PlanAnswers :
        LET cur == current_node_id
            success == es_result.status = "success"
            result_value == es_result.result
            failed == nodes[cur].status = "FAILED"
            steps1 == IF success
                        THEN Append(completed_steps,
                                    CompletedStep(cur, result_value))
                        ELSE completed_steps
            \* lines 240-246
            st1 == IF success
                     THEN ctx_update_globals(
                              Ctx(globals_schema, history),
                              ("last_result" :> result_value)
                                  @@ ("last_node" :> cur))
                     ELSE Ctx(globals_schema, history)
            \* lines 256-258
            st2 == ctx_log(st1, StepPerceptionEvent(cur, gm))
            \* lines 263-336
            math_return ==
                is_simple_math /\ success /\ Truthy(result_value)
            st_math ==
                ctx_update_globals(
                    ctx_update_globals(
                        st2, ("final_answer" :> result_value)
                                 @@ ("last_result" :> result_value)),
                    ("final_answer" :> FormattedAnswer))
            \* lines 339-343
            st3 == IF success /\ ~is_simple_math /\ UsableResult(result_value)
                     THEN ctx_update_globals(
                              st2, ("last_result" :> result_value))
                     ELSE st2
            \* lines 346-355
            st_goal ==
                ctx_update_globals(st3, ("final_answer" :> FormattedAnswer))
            \* lines 358-413
            new_id == NewFallbackId(nodes, cur)
            st_fallback == ctx_log(st3, FallbackAddedEvent(cur, new_id))
            \* lines 416-450
            cf1 == IF success THEN 0 ELSE consecutive_failures
            hil1 == cf1 >= max_consecutive_failures
            st_h1 == IF hil1
                       THEN ctx_update_globals(
                                st3, HilDelta("consecutive_failures"))
                       ELSE st3
            out1 == IF hil1 THEN pa1 ELSE "accept"
            \* lines 453-482
            hil2 == out1 = "accept" /\ Len(steps1) >= max_steps /\ ~gm
            st_h2 == IF hil2
                       THEN ctx_update_globals(
                                st_h1, HilDelta("max_steps_reached"))
                       ELSE st_h1
            out2 == IF hil2 THEN pa2 ELSE out1
            st_user ==
                ctx_update_globals(st_h2, ("final_answer" :> UserAnswer))
            branch ==
                IF math_return THEN "return_math"
                ELSE IF gm THEN "return_goal"
                ELSE IF failed THEN "fallback"
                ELSE IF out2 = "final_answer" THEN "return_user"
                ELSE IF out2 = "custom_plan" THEN "rebuild"
                ELSE "next"
            st == CASE branch = "return_math" -> st_math
                    [] branch = "return_goal" -> st_goal
                    [] branch = "fallback"    -> st_fallback
                    [] branch = "return_user" -> st_user
                    [] OTHER                  -> st_h2
        IN  /\ (hil1 \/ pa1 = "accept")
            /\ (hil2 \/ pa2 = "accept")
            /\ goal_met' = gm
            /\ node_execution_trace' = Append(node_execution_trace, cur)
            /\ completed_steps' = steps1
            /\ globals_schema' = st.g
            /\ history' = st.h
            /\ IF branch = "fallback"
                 THEN add_fallback_node(cur)
                 ELSE /\ nodes' = IF branch = "rebuild"
                                    THEN RebuiltNodes(nodes) ELSE nodes
                      /\ children' = IF branch = "rebuild"
                                       THEN RebuiltChildren(nodes)
                                       ELSE children
                      /\ fallback_id' = fallback_id
            /\ current_node_id' =
                 CASE branch = "fallback" -> new_id
                   [] branch = "rebuild"  -> start_node_id
                   [] branch = "next"     ->
                        select_next_node(nodes, children, cur)
                   [] OTHER               -> cur
            /\ consecutive_failures' =
                 CASE branch = "fallback" -> consecutive_failures + 1
                   [] branch = "rebuild"  -> 0
                   [] branch = "next"     -> cf1
                   [] OTHER               -> consecutive_failures
            /\ final_answer' =
                 CASE branch \in {"return_math", "return_goal"} ->
                        FormattedAnswer
                   [] branch = "return_user" -> UserAnswer
                   [] OTHER -> None
            /\ loop_pc' =
                 IF branch \in {"return_math", "return_goal", "return_user"}
                   THEN "done" ELSE "head"
    /\ execute_step_end
    /\ UNCHANGED <<MAX_RETRIES, ext_vars, start_node_id, failed_nodes, nodes_executed,
                   calls_made, next_node_id, call_error, is_simple_math, par_vars,
                   ruc_vars, obs_vars>>

\* lines 491-539: the loop is left without an explicit summary
loop_exit ==
    /\ loop_pc = "head"
    /\ ~LoopContinues
    /\ LET results == [i \in 1..Len(completed_steps) |->
                          completed_steps[i].result]
           \* lines 495-496: written into the dict directly
           g0 == ("node_execution_trace" :> node_execution_trace)
                     @@ ("completed_steps" :> completed_steps)
                     @@ globals_schema
           st0 == Ctx(g0, history)
           \* lines 500-522
           aggregated_parts == SelectSeq(results, UsableResult)
           st1 == IF Len(completed_steps) > 1 /\ aggregated_parts # <<>>
                    THEN ctx_update_globals(
                             st0, ("last_result" :> "aggregated")
                                      @@ ("aggregated_results" :>
                                              aggregated_parts))
                    ELSE st0
           \* lines 525-532
           st2 == IF /\ \/ "last_result" \notin DOMAIN st1.g
                        \/ ~Truthy(st1.g["last_result"])
                     /\ completed_steps # <<>>
                     /\ UsableResult(results[Len(results)])
                    THEN ctx_update_globals(
                             st1, ("last_result" :> results[Len(results)]))
                    ELSE st1
           \* lines 534-539
           st3 == ctx_update_globals(st2, ("final_answer" :> FormattedAnswer))
       IN  /\ globals_schema' = st3.g
           /\ history' = st3.h
    /\ final_answer' = FormattedAnswer
    /\ loop_pc' = "done"
    /\ UNCHANGED <<MAX_RETRIES, ext_vars, nodes, children, start_node_id, failed_nodes,
                   nodes_executed, es_vars, caller_vars, current_node_id,
                   completed_steps, node_execution_trace,
                   consecutive_failures, is_simple_math, goal_met, par_vars,
                   ruc_vars, obs_vars>>

NextLoop ==
    \/ loop_head
    \/ loop_step_returned
    \/ loop_exit
    \/ execute_step_try_variant
    \/ execute_step_variant_done
    \/ execute_step_all_failed
    \/ run_user_code_try
    \/ run_user_code_outcome
    \/ run_user_code_sleep
    \/ run_user_code_after

SpecLoop == InitLoop /\ [][NextLoop]_vars

(***************************************************************************)
(* A long run of AgentLoop.run: a plan of max_steps steps whose first      *)
(* max_steps - 1 executions succeed at once and do not meet the goal.      *)
(* These are runs of the loop above; they are followed far enough for      *)
(* len(completed_steps) >= max_steps (line 453) to be met, which the       *)
(* short runs of SpecLoop never are.                                       *)
(***************************************************************************)
\* execute_step calls of a long run: one past the escalation
LongRunSteps == max_steps + 1

\* a generated variant source with one tool call
SrcToolCall == Source("ok", 1)

InitLongRun ==
    /\ MAX_RETRIES = 2
    /\ nodes = ChainNodes(max_steps, [k \in 1..3 |-> SrcToolCall])
    /\ children = ChainChildren(max_steps)
    /\ history = <<GlobalsUpdatedEvent("query" :> Query),
                   RootPerceptionEvent, PlanGraphCreatedEvent(max_steps)>>
    /\ start_node_id = "0"
    /\ globals_schema = ("query" :> Query)
    /\ failed_nodes = <<>>
    /\ nodes_executed = <<>>
    /\ InitIdle
    /\ ExtIdle
    /\ loop_pc = "head"
    /\ current_node_id = "0"
    /\ completed_steps = <<>>
    /\ node_execution_trace = <<>>
    /\ consecutive_failures = 0
    /\ is_simple_math = FALSE
    /\ goal_met = FALSE
    /\ final_answer = None

\* the early steps of a long run: the awaited execution returns its value,
\* and perception does not report the goal as met
EarlySteps == Len(completed_steps) < max_steps - 1
long_run_outcome ==
    /\ run_user_code_outcome
    /\ EarlySteps => ruc_pc' = "returned"
long_run_step_returned ==
    /\ loop_step_returned
    /\ EarlySteps => ~goal_met'

NextLongRun ==
    \/ loop_head_upto(LongRunSteps)
    \/ long_run_step_returned
    \/ loop_exit
    \/ execute_step_try_variant
    \/ execute_step_variant_done
    \/ execute_step_all_failed
    \/ run_user_code_try
    \/ long_run_outcome
    \/ run_user_code_sleep
    \/ run_user_code_after

SpecLongRun == InitLongRun /\ [][NextLongRun]_vars

(***************************************************************************)
(* action/executor.py : build_safe_globals.parallel                        *)
(* SpecParallel: one parallel(tool_calls...) call, the tool calls finishing  *)
(* in any order, each with a value or an exception                         *)
(***************************************************************************)
\* tool calls passed to one parallel call
MaxParallel == 3

\* tool names
Tools == {"add", "search"}

\* coros[i]: the i-th coroutine, not finished / finished with what
Pending(i) == [kind |-> "pending", call |-> i]
Outcome(i, kind) == [kind |-> kind, call |-> i]
OutcomeKinds == {"value", "exception"}

Finished(cs) == {i \in 1..Len(cs) : cs[i].kind # "pending"}
Raised(cs) == {i \in 1..Len(cs) : cs[i].kind = "exception"}

\* asyncio.gather(coros..., return_exceptions=True)  (line 106)
ReturnExceptions_off == FALSE
ReturnExceptions == TRUE

\* gather resolves: with return_exceptions, when every awaitable has
\* finished; without it, also as soon as one has raised
GatherResolved(cs, return_exceptions) ==
    \/ Finished(cs) = 1..Len(cs)
    \/ ~return_exceptions /\ Raised(cs) # {}

\* gather raises the exception of an awaitable instead of returning
GatherRaises(cs, return_exceptions) ==
    ~return_exceptions /\ Raised(cs) # {}

InitParallel ==
    /\ MAX_RETRIES = DefaultMaxRetries
    /\ nodes = EmptyDict
    /\ children = EmptyDict
    /\ start_node_id = None
    /\ globals_schema = EmptyDict
    /\ failed_nodes = <<>>
    /\ history = <<>>
    /\ nodes_executed = <<>>
    /\ InitIdle
    /\ ExtIdle
    /\ LoopIdle

\* coros = [multi_mcp.function_wrapper(tool_name, *args) for ...] and the
\* call of gather, which schedules every one of them (lines 101-106)
parallel_call ==
    /\ par_pc = "idle"
    /\ \E n \in 0..MaxParallel :
        \E calls \in [1..n -> Tools] :
            /\ tool_calls_arg' = calls
            /\ coros' = [i \in 1..n |-> Pending(i)]
    /\ par_pc' = "gather"
    /\ par_result' = <<>>
    /\ UNCHANGED <<MAX_RETRIES, ext_vars, ctx_vars, es_vars, caller_vars, loop_vars,
                   ruc_vars, obs_vars>>

\* one of the tool calls in flight finishes, with a value or an exception
tool_call_finishes ==
    /\ par_pc = "gather"
    /\ \E i \in 1..Len(coros), kind \in OutcomeKinds :
        /\ coros[i].kind = "pending"
        /\ coros' = [coros EXCEPT ![i] = Outcome(i, kind)]
    /\ UNCHANGED <<MAX_RETRIES, ext_vars, ctx_vars, es_vars, caller_vars, loop_vars,
                   par_pc, tool_calls_arg, par_result, ruc_vars, obs_vars>>

\* return await asyncio.gather(...): the list of outcomes in the order of
\* the arguments, or the exception gather raises (lines 105-111)
parallel_return ==
    /\ par_pc = "gather"
    /\ GatherResolved(coros, ReturnExceptions)
    /\ IF GatherRaises(coros, ReturnExceptions)
         THEN /\ par_pc' = "raised"
              /\ par_result' = <<>>
         ELSE /\ par_pc' = "returned"
              /\ par_result' = coros
    /\ UNCHANGED <<MAX_RETRIES, ext_vars, ctx_vars, es_vars, caller_vars, loop_vars,
                   tool_calls_arg, coros, ruc_vars, obs_vars>>

NextParallel ==
    \/ parallel_call
    \/ tool_call_finishes
    \/ parallel_return

SpecParallel == InitParallel /\ [][NextParallel]_vars

(***************************************************************************)
(* Plan escalation: ask_user_for_plan, UserPlanStorage and the two loops   *)
(* that escalate a plan (agent/agent_loop.py, agent/agent_loop2.py)        *)
(***************************************************************************)
\* agent runs, one after the other
MaxRuns == 2
\* plan escalations of one agent_loop2 run
MaxEscalations == 2
\* completed steps of one agent_loop run
MaxRunSteps == 11
\* steps typed into a custom plan
MaxPlanLines == 2
\* steps one agent_loop2 run executes
MaxSessionSteps == 1
\* the largest value session.get_next_step_index() delivers
MaxStepIndex == 3
\* session.get_next_step_index(): the session's count of its steps, as the
\* loop receives it (agent_loop2.py lines 73, 383, 462)
StepIndexes == 0..MaxStepIndex

\* the plans the callers suggest
SuggestedStepLimit ==
    <<"Conclude with current results", "Provide final answer">>
SuggestedEvaluateLimit == <<"Conclude with current results">>
SuggestedReplan == <<"next step">>
SuggestedGraph == <<"step 0">>

InitPlan ==
    /\ MAX_RETRIES = DefaultMaxRetries
    /\ UtilIdle
    /\ call_error = None
    /\ MAX_STEPS \in StepSettings
    /\ nodes = EmptyDict
    /\ children = EmptyDict
    /\ start_node_id = None
    /\ globals_schema = EmptyDict
    /\ failed_nodes = <<>>
    /\ history = <<>>
    /\ nodes_executed = <<>>
    /\ InitIdle
    /\ LoopIdle
    /\ PlanIdle
    /\ BackoffIdle
    /\ SandboxIdle

\* the call ask_user_for_plan(context, suggested_plan, session_id), up to
\* its first input()
ask_user_for_plan_begin(suggested_plan, session_id) ==
    /\ ap_pc' = "choice"
    /\ ap_suggested' = suggested_plan
    /\ ap_session_id' = session_id
    /\ custom_plan' = <<>>
    /\ ap_result' = NoPlanResult
    /\ ap_eof' = FALSE
    /\ ap_last_line' = NoLine

\* the caller has taken the result
ask_user_for_plan_end ==
    /\ ap_pc' = "idle"
    /\ ap_suggested' = <<>>
    /\ ap_session_id' = None
    /\ custom_plan' = <<>>
    /\ ap_result' = NoPlanResult
    /\ ap_eof' = FALSE
    /\ ap_last_line' = NoLine

\* lines 101-108, 133, 152-154: choice = input("Your choice: ")
ask_plan_choice ==
    /\ ap_pc = "choice"
    /\ \E line \in ChoiceLines \cup {EndOfInput} :
        LET choice == Lower(line.text) IN
        /\ ap_last_line' = line
        /\ IF line = EndOfInput
             THEN /\ ap_pc' = "returned"
                  /\ ap_result' = PlanResult(ap_suggested, NoPlan)
                  /\ ap_eof' = TRUE
             ELSE /\ ap_pc' = CASE choice = "json" -> "json"
                                [] choice \in {"modify", "custom"} -> "lines"
                                [] OTHER -> "returned"
                  /\ ap_result' = IF choice \in {"json", "modify", "custom"}
                                    THEN ap_result
                                    ELSE PlanResult(ap_suggested, NoPlan)
                  /\ UNCHANGED ap_eof
    /\ UNCHANGED <<MAX_RETRIES, util_vars, ctx_vars, es_vars, caller_vars, loop_vars,
                   par_vars, ruc_vars, obs_vars, backoff_vars, sandbox_vars,
                   session_plans, uuid_counter, ap_session_id, ap_suggested,
                   custom_plan, run_vars>>

\* lines 109-131: json_input = input("  > ") and what follows
ask_plan_json ==
    /\ ap_pc = "json"
    /\ \E line \in JsonLines \cup {EndOfInput} :
        LET user_plan_dict == parse_user_input(line)
            answer == user_plan_dict.dict["final_answer"]
            stores == Truthy(ap_session_id)
        IN
        /\ ap_last_line' = line
        /\ CASE line = EndOfInput ->
               /\ ap_pc' = "raised"
               /\ ap_result' = PlanRaised("EOFError")
               /\ ap_eof' = TRUE
               /\ UNCHANGED <<session_plans, run_stored>>
          [] line # EndOfInput /\ ~PlanTruthy(user_plan_dict) ->
               /\ ap_pc' = "returned"
               /\ ap_result' = PlanResult(ap_suggested, NoPlan)
               /\ UNCHANGED <<ap_eof, session_plans, run_stored>>
          \* line 117: user_plan_dict.get('final_answer', 'N/A')[:100]
          [] line # EndOfInput /\ PlanTruthy(user_plan_dict)
                 /\ answer.type # "str" ->
               /\ ap_pc' = "raised"
               /\ ap_result' = PlanRaised("TypeError")
               /\ UNCHANGED <<ap_eof, session_plans, run_stored>>
          [] OTHER ->
               /\ ap_pc' = "returned"
               /\ session_plans' =
                    IF stores
                      THEN store_user_plan(session_plans, ap_session_id,
                                           user_plan_dict.dict)
                      ELSE session_plans
               /\ run_stored' = IF stores
                                  THEN run_stored \cup {ap_session_id}
                                  ELSE run_stored
               /\ ap_result' =
                    PlanResult(IF JTruthy(answer)
                                 THEN <<answer.v>> ELSE ap_suggested,
                               user_plan_dict)
               /\ UNCHANGED ap_eof
    /\ UNCHANGED <<MAX_RETRIES, util_vars, ctx_vars, es_vars, caller_vars, loop_vars,
                   par_vars, ruc_vars, obs_vars, backoff_vars, sandbox_vars,
                   session_vars, uuid_counter,
                   ap_session_id, ap_suggested, custom_plan, run_kind,
                   run_pc, run_session_id, run_site, run_steps,
                   run_escalations, run_prompts, runs_started>>

\* lines 133-150: one line = input("  > ") of the while loop, and the
\* return once END was read
ask_plan_line ==
    /\ ap_pc = "lines"
    /\ \E line \in StepLines \cup {EndOfInput} :
        /\ ap_last_line' = line
        /\ CASE line = EndOfInput ->
               /\ ap_pc' = "raised"
               /\ ap_result' = PlanRaised("EOFError")
               /\ ap_eof' = TRUE
               /\ UNCHANGED custom_plan
          [] line # EndOfInput /\ Upper(line.text) = "END" ->
               /\ ap_pc' = "returned"
               /\ ap_result' = PlanResult(IF custom_plan # <<>>
                                            THEN custom_plan
                                            ELSE ap_suggested, NoPlan)
               /\ UNCHANGED <<ap_eof, custom_plan>>
          [] OTHER ->
               /\ line.text # "" => Len(custom_plan) < MaxPlanLines
               /\ custom_plan' = IF line.text # ""
                                   THEN Append(custom_plan, line.text)
                                   ELSE custom_plan
               /\ UNCHANGED <<ap_pc, ap_result, ap_eof>>
    /\ UNCHANGED <<MAX_RETRIES, util_vars, ctx_vars, es_vars, caller_vars, loop_vars,
                   par_vars, ruc_vars, obs_vars, backoff_vars, sandbox_vars, session_plans,
                   uuid_counter, ap_session_id, ap_suggested, run_vars>>

\* a run begins: agent_loop2 creates the session and its id (line 51);
\* agent_loop has no session id of its own
run_start ==
    /\ run_pc \in {"idle", "finished", "raised"}
    /\ ap_pc = "idle"
    /\ runs_started < MaxRuns
    /\ runs_started' = runs_started + 1
    /\ \E kind \in {"agent_loop", "agent_loop2"} :
        /\ run_kind' = kind
        /\ IF kind = "agent_loop2"
             THEN /\ uuid_counter' = uuid_counter + 1
                  /\ run_session_id' = Uuid(uuid_counter + 1)
                  /\ session_stage' = "head"
             ELSE /\ run_session_id' = None
                  /\ session_stage' = None
                  /\ UNCHANGED uuid_counter
    /\ run_pc' = "loop"
    /\ run_site' = None
    /\ run_steps' = 0
    /\ run_escalations' = 0
    /\ run_prompts' = 0
    /\ run_stored' = {}
    /\ current_step_index' = 0
    /\ is_limit_reached' = FALSE
    /\ steps_executed' = 0
    /\ UNCHANGED <<MAX_RETRIES, util_vars, MAX_STEPS, ctx_vars, es_vars, caller_vars,
                   loop_vars, par_vars, ruc_vars, obs_vars, backoff_vars,
                   sandbox_vars, session_plans, ap_vars>>

\* agent_loop.py lines 204-489, one iteration of the loop whose step
\* succeeded: the run returns when the goal is met, asks for a plan when
\* max_steps steps are completed without the goal met (lines 453-470), and
\* moves to the next node otherwise
graph_loop_iteration ==
    /\ run_kind = "agent_loop"
    /\ run_pc = "loop"
    /\ run_steps < MaxRunSteps
    /\ run_steps' = run_steps + 1
    /\ \E gm \in BOOLEAN, more \in BOOLEAN :
        IF gm
          THEN /\ run_pc' = "finished"
               /\ UNCHANGED <<uuid_counter, ap_vars, run_site,
                              run_escalations, run_prompts>>
          ELSE IF run_steps + 1 >= max_steps
            THEN \* session_id = ctx.globals_schema.get("session_id",
                 \*                                     str(uuid.uuid4()))
                 /\ uuid_counter' = uuid_counter + 1
                 /\ ask_user_for_plan_begin(SuggestedGraph,
                                            Uuid(uuid_counter + 1))
                 /\ run_pc' = "escalating"
                 /\ run_site' = "max_steps_reached"
                 /\ run_escalations' = run_escalations + 1
                 /\ run_prompts' = run_prompts + 1
            ELSE /\ run_pc' = IF more THEN "loop" ELSE "finished"
                 /\ UNCHANGED <<uuid_counter, ap_vars, run_site,
                                run_escalations, run_prompts>>
    /\ UNCHANGED <<MAX_RETRIES, util_vars, ctx_vars, es_vars, caller_vars, loop_vars,
                   par_vars, ruc_vars, obs_vars, backoff_vars, sandbox_vars,
                   session_vars, session_plans, run_kind,
                   run_session_id, run_stored, runs_started>>

\* agent_loop.py lines 470-489: ask_user_for_plan has returned or raised
graph_plan_returned ==
    /\ run_kind = "agent_loop"
    /\ run_pc = "escalating"
    /\ ap_pc \in {"returned", "raised"}
    /\ \E more \in BOOLEAN :
        LET new_plan == ap_result.plan
            user_plan_dict == ap_result.user_plan_dict
        IN  run_pc' =
              CASE ap_pc = "raised" -> "raised"
                [] ap_pc = "returned" /\ new_plan # <<>>
                       /\ PlanTruthy(user_plan_dict) ->
                     IF JTruthy(user_plan_dict.dict["final_answer"])
                       THEN "finished"
                       ELSE IF more THEN "loop" ELSE "finished"
                [] ap_pc = "returned" /\ new_plan # <<>>
                       /\ ~PlanTruthy(user_plan_dict)
                       /\ new_plan # ap_suggested -> "loop"
                [] OTHER -> IF more THEN "loop" ELSE "finished"
    /\ run_site' = None
    /\ ask_user_for_plan_end
    /\ UNCHANGED <<MAX_RETRIES, util_vars, ctx_vars, es_vars, caller_vars, loop_vars,
                   par_vars, ruc_vars, obs_vars, backoff_vars, sandbox_vars,
                   session_vars, session_plans,
                   uuid_counter, run_kind, run_session_id, run_steps,
                   run_escalations, run_prompts, run_stored, runs_started>>

\* agent_loop2.py lines 131-234: the loop is left, the run is logged and
\* the stored plan is removed
session_finish_with(plans) ==
    /\ session_plans' = clear_user_plan(plans, run_session_id)
    /\ run_pc' = "finished"

\* the escalation points of agent_loop2.py
EscalationSites == {"step_limit", "evaluate_limit", "replan"}
SuggestedAt(site) ==
    CASE site = "step_limit"     -> SuggestedStepLimit
      [] site = "evaluate_limit" -> SuggestedEvaluateLimit
      [] OTHER                   -> SuggestedReplan

\* stored_user_plan = UserPlanStorage.get_user_plan(session.session_id);
\* if stored_user_plan: ... (lines 87-88, 396-397, 487-488)
UseStoredPlan(plans, session_id) ==
    PlanTruthy(get_user_plan(plans, session_id))

\* self.control_manager.max_steps of the AgentLoop (agent_loop2.py line 25)
SessionMaxSteps == ControlManager_max_steps(None, MAX_STEPS)

\* agent_loop2.py: the plan is escalated when check_step_limit reports the
\* limit at the head of the main loop (lines 72-128) or in evaluate_step
\* (lines 383-458), and after an unhelpful step whatever the limit (lines
\* 460-506); a stored plan is used when there is one, otherwise the user
\* is asked
session_escalate ==
    /\ run_kind = "agent_loop2"
    /\ run_pc = "loop"
    /\ run_escalations < MaxEscalations
    /\ run_escalations' = run_escalations + 1
    /\ \E site \in EscalationSites, next_index \in StepIndexes :
        LET reached == check_step_limit(SessionMaxSteps, next_index)
        IN  /\ CASE site = "step_limit" -> session_stage = "head" /\ reached
                 [] site = "evaluate_limit" ->
                        session_stage = "evaluate" /\ reached
                 [] OTHER -> session_stage = "evaluate"
            /\ current_step_index' = next_index
            /\ is_limit_reached' = reached
            /\ IF UseStoredPlan(session_plans, run_session_id)
                 THEN /\ IF site = "replan"
                           THEN /\ session_stage' = "head"
                                /\ UNCHANGED <<session_plans, run_pc>>
                           ELSE /\ session_stage' = None
                                /\ session_finish_with(session_plans)
                      /\ UNCHANGED <<ap_vars, run_site, run_prompts>>
                 ELSE /\ ask_user_for_plan_begin(SuggestedAt(site),
                                                 run_session_id)
                      /\ run_pc' = "escalating"
                      /\ run_site' = site
                      /\ run_prompts' = run_prompts + 1
                      /\ UNCHANGED <<session_plans, session_stage>>
    /\ UNCHANGED <<MAX_RETRIES, util_vars, MAX_STEPS, steps_executed, ctx_vars, es_vars,
                   caller_vars, loop_vars, par_vars, ruc_vars, obs_vars,
                   backoff_vars, sandbox_vars, uuid_counter, run_kind,
                   run_session_id, run_steps, run_stored, runs_started>>

\* agent_loop2.py: ask_user_for_plan has returned or raised; after an
\* unhelpful step the loop goes on with the new plan, at a step limit the
\* run concludes
session_plan_returned ==
    /\ run_kind = "agent_loop2"
    /\ run_pc = "escalating"
    /\ ap_pc \in {"returned", "raised"}
    /\ CASE ap_pc = "raised" ->
              /\ run_pc' = "raised"
              /\ session_stage' = None
              /\ UNCHANGED session_plans
         [] ap_pc = "returned" /\ run_site = "replan"
                /\ ap_result.plan # <<>> ->
              /\ run_pc' = "loop"
              /\ session_stage' = "head"
              /\ UNCHANGED session_plans
         [] OTHER ->
              /\ session_stage' = None
              /\ session_finish_with(session_plans)
    /\ run_site' = None
    /\ ask_user_for_plan_end
    /\ UNCHANGED <<MAX_RETRIES, util_vars, MAX_STEPS, current_step_index,
                   is_limit_reached, steps_executed, ctx_vars, es_vars,
                   caller_vars, loop_vars, par_vars, ruc_vars, obs_vars,
                   backoff_vars, sandbox_vars, uuid_counter, run_kind,
                   run_session_id, run_steps, run_escalations, run_prompts,
                   run_stored, runs_started>>

\* agent_loop2.py lines 70-74 and 130-133: the head of the main loop found
\* the limit not reached and the step is executed; a CONCLUDE or NOP step
\* makes execute_step return None, which ends the loop
session_execute_step ==
    /\ run_kind = "agent_loop2"
    /\ run_pc = "loop"
    /\ session_stage = "head"
    /\ steps_executed < MaxSessionSteps
    /\ \E step_index \in StepIndexes, is_code \in BOOLEAN :
        /\ ~check_step_limit(SessionMaxSteps, step_index)
        /\ current_step_index' = step_index
        /\ is_limit_reached' = FALSE
        /\ steps_executed' = steps_executed + 1
        /\ IF is_code
             THEN /\ session_stage' = "evaluate"
                  /\ UNCHANGED <<session_plans, run_pc>>
             ELSE /\ session_stage' = None
                  /\ session_finish_with(session_plans)
    /\ UNCHANGED <<MAX_RETRIES, util_vars, MAX_STEPS, ctx_vars, es_vars, caller_vars,
                   loop_vars, par_vars, ruc_vars, obs_vars, backoff_vars,
                   sandbox_vars, uuid_counter, ap_vars, run_kind,
                   run_session_id, run_site, run_steps, run_escalations,
                   run_prompts, run_stored, runs_started>>

\* agent_loop2.py lines 381-385, 458 and 508-532: the step helped, the
\* limit is not reached and get_next_step delivers the next step, or None
\* when the plan has no more steps
session_next_step ==
    /\ run_kind = "agent_loop2"
    /\ run_pc = "loop"
    /\ session_stage = "evaluate"
    /\ \E next_index \in StepIndexes, more \in BOOLEAN :
        /\ ~check_step_limit(SessionMaxSteps, next_index)
        /\ current_step_index' = next_index
        /\ is_limit_reached' = FALSE
        /\ IF more
             THEN /\ session_stage' = "head"
                  /\ UNCHANGED <<session_plans, run_pc>>
             ELSE /\ session_stage' = None
                  /\ session_finish_with(session_plans)
    /\ UNCHANGED <<MAX_RETRIES, util_vars, MAX_STEPS, steps_executed, ctx_vars, es_vars,
                   caller_vars, loop_vars, par_vars, ruc_vars, obs_vars,
                   backoff_vars, sandbox_vars, uuid_counter, ap_vars,
                   run_kind, run_session_id, run_site, run_steps,
                   run_escalations, run_prompts, run_stored, runs_started>>

\* agent_loop2.py lines 377-381: the step achieved the goal, evaluate_step
\* returns None and the loop is left
session_finish ==
    /\ run_kind = "agent_loop2"
    /\ run_pc = "loop"
    /\ session_stage = "evaluate"
    /\ session_stage' = None
    /\ session_finish_with(session_plans)
    /\ UNCHANGED <<MAX_RETRIES, util_vars, MAX_STEPS, current_step_index,
                   is_limit_reached, steps_executed, ctx_vars, es_vars,
                   caller_vars, loop_vars, par_vars, ruc_vars, obs_vars,
                   backoff_vars, sandbox_vars, uuid_counter, ap_vars,
                   run_kind, run_session_id, run_site, run_steps,
                   run_escalations, run_prompts, run_stored, runs_started>>

NextPlan ==
    \/ run_start
    \/ graph_loop_iteration
    \/ graph_plan_returned
    \/ session_escalate
    \/ session_plan_returned
    \/ session_execute_step
    \/ session_next_step
    \/ session_finish
    \/ ask_plan_choice
    \/ ask_plan_json
    \/ ask_plan_line

SpecPlan == InitPlan /\ [][NextPlan]_vars

(***************************************************************************)
(* utils/backoff.py : with_exponential_backoff                             *)
(***************************************************************************)
\* the largest max_retries a caller passes
MaxBackoffRetries == 3
\* max_delay as the callers pass it: the default 60.0, or a shorter cap
MaxDelays == {8, 60}

\* with_exponential_backoff(func, ..., max_retries=, max_delay=) has been
\* called and has dispatched on asyncio.iscoroutinefunction(func) to the
\* sync or the async loop, which is about to make its first attempt
InitBackoff ==
    /\ MAX_RETRIES = DefaultMaxRetries
    /\ UtilIdle
    /\ call_error = None
    /\ MAX_STEPS = DefaultMaxSteps
    /\ nodes = EmptyDict
    /\ children = EmptyDict
    /\ start_node_id = None
    /\ globals_schema = EmptyDict
    /\ failed_nodes = <<>>
    /\ history = <<>>
    /\ nodes_executed = <<>>
    /\ InitIdle
    /\ LoopIdle
    /\ PlanIdle
    /\ SandboxIdle
    /\ GOOGLE_ERRORS_AVAILABLE \in BOOLEAN
    /\ bo_pc = "try"
    /\ bo_max_retries \in 0..MaxBackoffRetries
    /\ bo_max_delay \in MaxDelays
    /\ bo_is_async \in BOOLEAN
    /\ attempt = 0
    /\ last_exception = NoException
    /\ bo_result = NoOutcome
    /\ bo_outcomes = <<>>
    /\ bo_sleeps = <<>>

\* for attempt in range(max_retries + 1): one pass through the try block
\* and its except clause (lines 83-111 sync, 150-178 async), up to the
\* return, the raise or the start of the sleep
backoff_attempt ==
    /\ bo_pc = "try"
    /\ attempt <= bo_max_retries
    /\ \E outcome \in {FuncValue} \cup {FuncRaised(e) : e \in Exceptions} :
        /\ bo_outcomes' = Append(bo_outcomes, outcome)
        /\ IF outcome.kind = "value"
             THEN /\ bo_pc' = "returned"
                  /\ bo_result' = outcome
                  /\ UNCHANGED <<last_exception, bo_sleeps>>
             ELSE /\ last_exception' = outcome.exc
                  /\ IF ~is_429_error(GOOGLE_ERRORS_AVAILABLE, outcome.exc)
                       THEN /\ bo_pc' = "raised"
                            /\ bo_result' = outcome
                            /\ UNCHANGED bo_sleeps
                       ELSE IF RetriesLeft(attempt, bo_max_retries)
                         THEN /\ bo_pc' = "sleep"
                              /\ bo_sleeps' =
                                   Append(bo_sleeps,
                                          current_delay(attempt,
                                                        bo_max_delay))
                              /\ UNCHANGED bo_result
                         ELSE /\ bo_pc' = "raised"
                              /\ bo_result' = outcome
                              /\ UNCHANGED bo_sleeps
    /\ UNCHANGED <<MAX_RETRIES, util_vars, ctx_vars, es_vars, caller_vars, loop_vars,
                   par_vars, ruc_vars, obs_vars, plan_vars, sandbox_vars,
                   GOOGLE_ERRORS_AVAILABLE, bo_max_retries, bo_max_delay,
                   bo_is_async, attempt>>

\* time.sleep(current_delay) / await asyncio.sleep(current_delay) is over:
\* the for loop takes its next value, or is exhausted and last_exception
\* is raised (lines 113-115, 180-182)
backoff_sleep_over ==
    /\ bo_pc = "sleep"
    /\ attempt' = attempt + 1
    /\ IF attempt + 1 <= bo_max_retries
         THEN /\ bo_pc' = "try"
              /\ UNCHANGED bo_result
         ELSE /\ bo_pc' = "raised"
              /\ bo_result' = FuncRaised(last_exception)
    /\ UNCHANGED <<MAX_RETRIES, util_vars, ctx_vars, es_vars, caller_vars, loop_vars,
                   par_vars, ruc_vars, obs_vars, plan_vars, sandbox_vars,
                   GOOGLE_ERRORS_AVAILABLE, bo_max_retries, bo_max_delay,
                   bo_is_async, last_exception, bo_outcomes, bo_sleeps>>

NextBackoff ==
    \/ backoff_attempt
    \/ backoff_sleep_over

SpecBackoff == InitBackoff /\ [][NextBackoff]_vars

(***************************************************************************)
(* action/executor.py : build_safe_globals and the code executed in it     *)
(***************************************************************************)
\* ALLOWED_MODULES (lines 18-20)
ALLOWED_MODULES ==
    {"math", "cmath", "decimal", "fractions", "random", "statistics",
     "itertools", "functools", "operator", "string", "re", "datetime",
     "calendar", "time", "collections", "heapq", "bisect", "types", "copy",
     "enum", "uuid", "dataclasses", "typing", "pprint", "json", "base64",
     "hashlib", "hmac", "secrets", "struct", "zlib", "gzip", "bz2", "lzma",
     "io", "pathlib", "tempfile", "textwrap", "difflib", "unicodedata",
     "html", "html.parser", "xml", "xml.etree.ElementTree", "csv",
     "sqlite3", "contextlib", "traceback", "ast", "tokenize", "token",
     "builtins"}

\* the names copied from builtins into safe_globals["__builtins__"]
\* (line 87)
SafeBuiltins ==
    {"range", "len", "int", "float", "str", "list", "dict", "print", "sum",
     "__import__"}

\* build_safe_globals(mcp_funcs, multi_mcp): the names bound in the
\* namespace, and completed_steps added by run_user_code (line 166)
build_safe_globals(mcp_funcs) ==
    {"__builtins__"} \cup mcp_funcs \cup ALLOWED_MODULES
        \cup {"final_answer", "parallel", "completed_steps"}

\* the modules code tries to get: some on the allow-list, some not
WantedModules == {"math", "json", "pathlib", "os", "socket"}
\* standard-library modules that open files, and that open connections
FilesystemModules == {"pathlib", "io", "tempfile", "os"}
NetworkModules == {"socket"}

\* what executed code did: the kind of access and what it went through
Effect(kind, via) == [kind |-> kind, via |-> via]

InitSandbox ==
    /\ MAX_RETRIES = DefaultMaxRetries
    /\ UtilIdle
    /\ call_error = None
    /\ MAX_STEPS = DefaultMaxSteps
    /\ nodes = EmptyDict
    /\ children = EmptyDict
    /\ start_node_id = None
    /\ globals_schema = EmptyDict
    /\ failed_nodes = <<>>
    /\ history = <<>>
    /\ nodes_executed = <<>>
    /\ InitIdle
    /\ LoopIdle
    /\ PlanIdle
    /\ BackoffIdle
    /\ SandboxIdle

\* sandbox = build_safe_globals(tool_funcs, multi_mcp) ...
\* exec(compiled, sandbox, local_vars) (lines 158-212)
sandbox_exec ==
    /\ sb_pc = "idle"
    /\ \E mcp_funcs \in SUBSET Tools :
        sandbox' = build_safe_globals(mcp_funcs)
    /\ sb_builtins' = SafeBuiltins
    /\ sb_pc' = "running"
    /\ UNCHANGED <<MAX_RETRIES, util_vars, ctx_vars, es_vars, caller_vars, loop_vars,
                   par_vars, ruc_vars, obs_vars, plan_vars, backoff_vars,
                   held_modules, sb_effects>>

\* the code reads a global name bound to a module
code_reads_module ==
    /\ sb_pc = "running"
    /\ \E name \in WantedModules :
        /\ name \in sandbox
        /\ held_modules' = held_modules \cup {name}
    /\ UNCHANGED <<MAX_RETRIES, util_vars, ctx_vars, es_vars, caller_vars, loop_vars,
                   par_vars, ruc_vars, obs_vars, plan_vars, backoff_vars,
                   sb_pc, sandbox, sb_builtins, sb_effects>>

\* the code executes `import name`: the statement calls
\* __builtins__["__import__"], and fails with ImportError when
\* __builtins__ has no such entry
code_imports ==
    /\ sb_pc = "running"
    /\ "__import__" \in sb_builtins
    /\ \E name \in WantedModules :
        held_modules' = held_modules \cup {name}
    /\ UNCHANGED <<MAX_RETRIES, util_vars, ctx_vars, es_vars, caller_vars, loop_vars,
                   par_vars, ruc_vars, obs_vars, plan_vars, backoff_vars,
                   sb_pc, sandbox, sb_builtins, sb_effects>>

\* the code calls a tool bound in the namespace
code_calls_tool ==
    /\ sb_pc = "running"
    /\ \E tool \in Tools, kind \in {"filesystem", "network"} :
        /\ tool \in sandbox
        /\ sb_effects' = sb_effects \cup {Effect(kind, "tool")}
    /\ UNCHANGED <<MAX_RETRIES, util_vars, ctx_vars, es_vars, caller_vars, loop_vars,
                   par_vars, ruc_vars, obs_vars, plan_vars, backoff_vars,
                   sb_pc, sandbox, sb_builtins, held_modules>>

\* the code uses a module it holds to open a file or a connection
code_uses_module ==
    /\ sb_pc = "running"
    /\ \E m \in held_modules :
        \/ /\ m \in FilesystemModules
           /\ sb_effects' = sb_effects \cup {Effect("filesystem", m)}
        \/ /\ m \in NetworkModules
           /\ sb_effects' = sb_effects \cup {Effect("network", m)}
    /\ UNCHANGED <<MAX_RETRIES, util_vars, ctx_vars, es_vars, caller_vars, loop_vars,
                   par_vars, ruc_vars, obs_vars, plan_vars, backoff_vars,
                   sb_pc, sandbox, sb_builtins, held_modules>>

NextSandbox ==
    \/ sandbox_exec
    \/ code_reads_module
    \/ code_imports
    \/ code_calls_tool
    \/ code_uses_module

SpecSandbox == InitSandbox /\ [][NextSandbox]_vars

(***************************************************************************)
(* action/executor.py : the implicit result-return pass of run_user_code   *)
(* (lines 180-189).  A parsed source is the sequence of its top-level      *)
(* statements, each by its kind: "return" (ast.Return), "assign_result"    *)
(* (ast.Assign with a Name target result), "assign_other" (any other       *)
(* ast.Assign), "if_return" (a compound statement holding one ast.Return), *)
(* "expr" (anything else).                                                 *)
(***************************************************************************)
\* top-level statements of a source
MaxBody == 3
\* applications of the pass to one tree
MaxPasses == 2

StatementKinds ==
    {"return", "assign_result", "assign_other", "if_return", "expr"}

\* the trees with 1..n top-level statements (an empty body is refused
\* before the pass, lines 177-178)
TreeBodies(n) == UNION {[1..k -> StatementKinds] : k \in 1..n}

\* has_return = any(isinstance(node, ast.Return) for node in tree.body)
has_return(body) == \E i \in 1..Len(body) : body[i] = "return"
\* has_result = any(isinstance(node, ast.Assign) and any(isinstance(t,
\* ast.Name) and t.id == "result" ...) for node in tree.body)
has_result(body) == \E i \in 1..Len(body) : body[i] = "assign_result"

\* if not has_return and has_result:
\*     tree.body.append(ast.Return(value=ast.Name(id="result", ...)))
implicit_result_return_always(body) ==
    IF has_result(body) THEN Append(body, "return") ELSE body
implicit_result_return(body) ==
    IF ~has_return(body) /\ has_result(body)
      THEN Append(body, "return")
      ELSE body

\* the ast.Return nodes of the tree, nested ones included
ReturnCount(body) ==
    Cardinality({i \in 1..Len(body) : body[i] \in {"return", "if_return"}})

InitTransform ==
    /\ MAX_RETRIES = DefaultMaxRetries
    /\ MAX_STEPS = DefaultMaxSteps
    /\ call_error = None
    /\ nodes = EmptyDict
    /\ children = EmptyDict
    /\ start_node_id = None
    /\ globals_schema = EmptyDict
    /\ failed_nodes = <<>>
    /\ history = <<>>
    /\ nodes_executed = <<>>
    /\ InitIdle
    /\ LoopIdle
    /\ PlanIdle
    /\ BackoffIdle
    /\ SandboxIdle
    /\ LimiterIdle
    /\ tree_body \in TreeBodies(MaxBody)
    /\ passes = 0
    /\ return_counts = <<ReturnCount(tree_body)>>

\* the pass is applied to the tree as it stands
apply_implicit_result_return ==
    /\ passes < MaxPasses
    /\ passes' = passes + 1
    /\ tree_body' = implicit_result_return(tree_body)
    /\ return_counts' = Append(return_counts, ReturnCount(tree_body'))
    /\ UNCHANGED <<MAX_RETRIES, ctx_vars, es_vars, caller_vars, loop_vars,
                   par_vars, ruc_vars, obs_vars, plan_vars, backoff_vars,
                   sandbox_vars, limiter_vars>>

NextTransform == apply_implicit_result_return

SpecTransform == InitTransform /\ [][NextTransform]_vars

(***************************************************************************)
(* SpecLimiter: mcp_servers/mcp_server_3.py, RateLimiter.acquire called by *)
(* several tasks of one event loop.  Time is counted in whole seconds.     *)
(***************************************************************************)
\* tasks that call acquire()
MaxCallers == 2
\* acquire() calls of one behaviour
MaxAcquires == 3
\* the largest requests_per_minute of a limiter
MaxRate == 2
\* seconds the clock is followed for
MaxClock == 61

Callers == 1..MaxCallers
\* timedelta(minutes=1), and the 60 of wait_time
Window == 60

\* [req for req in self.requests if now - req < timedelta(minutes=1)]
RecentRequests(reqs, now) == SelectSeq(reqs, LAMBDA req : now - req < Window)

\* wait_time = 60 - (now - self.requests[0]).total_seconds()
wait_time(reqs, now) == Window - (now - reqs[1])

\* RateLimiter(requests_per_minute)
InitLimiter ==
    /\ MAX_RETRIES = DefaultMaxRetries
    /\ MAX_STEPS = DefaultMaxSteps
    /\ call_error = None
    /\ nodes = EmptyDict
    /\ children = EmptyDict
    /\ start_node_id = None
    /\ globals_schema = EmptyDict
    /\ failed_nodes = <<>>
    /\ history = <<>>
    /\ nodes_executed = <<>>
    /\ InitIdle
    /\ LoopIdle
    /\ PlanIdle
    /\ BackoffIdle
    /\ SandboxIdle
    /\ TransformIdle
    /\ requests_per_minute \in 1..MaxRate
    /\ requests = <<>>
    /\ clock = 0
    /\ acq_pc = [c \in Callers |-> "idle"]
    /\ acq_now = [c \in Callers |-> 0]
    /\ acq_wake = [c \in Callers |-> 0]
    /\ acquire_calls = 0
    /\ acquired = <<>>

LimiterFrame ==
    UNCHANGED <<MAX_RETRIES, ctx_vars, es_vars, caller_vars, loop_vars,
                par_vars, ruc_vars, obs_vars, plan_vars, backoff_vars,
                sandbox_vars, transform_vars, requests_per_minute>>

\* acquire() up to its first suspension point: lines 33-46 when the task
\* does not sleep, lines 33-44 when it does
acquire_begin(c) ==
    /\ acq_pc[c] = "idle"
    /\ acquire_calls < MaxAcquires
    /\ acquire_calls' = acquire_calls + 1
    /\ LET now == clock
           kept == RecentRequests(requests, now)
       IN  IF /\ Len(kept) >= requests_per_minute
              /\ wait_time(kept, now) > 0
             THEN /\ requests' = kept
                  /\ acq_pc' = [acq_pc EXCEPT ![c] = "sleep"]
                  /\ acq_now' = [acq_now EXCEPT ![c] = now]
                  /\ acq_wake' = [acq_wake EXCEPT ![c] =
                                      now + wait_time(kept, now)]
                  /\ UNCHANGED acquired
             ELSE /\ requests' = Append(kept, now)
                  /\ acquired' = Append(acquired, clock)
                  /\ UNCHANGED <<acq_pc, acq_now, acq_wake>>
    /\ UNCHANGED clock
    /\ LimiterFrame

\* asyncio.sleep(wait_time) is over: self.requests.append(now) with the now
\* taken before the sleep, and acquire() returns (line 46)
acquire_resume(c) ==
    /\ acq_pc[c] = "sleep"
    /\ clock >= acq_wake[c]
    /\ requests' = Append(requests, acq_now[c])
    /\ acquired' = Append(acquired, clock)
    /\ acq_pc' = [acq_pc EXCEPT ![c] = "idle"]
    /\ UNCHANGED <<clock, acq_now, acq_wake, acquire_calls>>
    /\ LimiterFrame

\* a second passes; a sleep that is due ends before the next second does
tick ==
    /\ clock < MaxClock
    /\ \A c \in Callers : acq_pc[c] = "sleep" => clock < acq_wake[c]
    /\ clock' = clock + 1
    /\ UNCHANGED <<requests, acq_pc, acq_now, acq_wake, acquire_calls,
                   acquired>>
    /\ LimiterFrame

NextLimiter ==
    \/ \E c \in Callers : acquire_begin(c)
    \/ \E c \in Callers : acquire_resume(c)
    \/ tick

SpecLimiter == InitLimiter /\ [][NextLimiter]_vars

(***************************************************************************)
(* Properties                                                              *)
(***************************************************************************)
Count(seq, x) == Cardinality({i \in 1..Len(seq) : seq[i] = x})

Returned == ruc_pc = "returned"

\* C4: for a source with more than 5 call expressions run_user_code
\* returns status error with retry_count 0; the code is never executed, no
\* tool is invoked, nothing is retried (no failure counted, no delay) and
\* the human is not asked.
C4_CallBudgetRejected ==
    (ruc_pc # "idle" /\ code.kind = "ok" /\ code.calls > MAX_FUNCTIONS) =>
        /\ exec_count = 0
        /\ tool_calls = 0
        /\ hil_calls = 0
        /\ retry_count = 0
        /\ failures = <<>>
        /\ Count(attempts, "sleep") = 0
        /\ ruc_pc # "running"
        /\ Returned => /\ ruc_result.status = "error"
                       /\ ruc_result.retry_count = 0
                       /\ ruc_result.human_provided = FALSE

C4_Witness ==
    /\ Returned
    /\ code.kind = "ok"
    /\ code.calls = MAX_FUNCTIONS + 1
    /\ max_retries >= 1
    /\ ruc_result.status = "error"
    /\ ruc_result.error = "Too many functions"

\* C5: an empty source, a source without statements and a syntactically
\* invalid source fail at once as an error: never executed, never retried
\* (retry_count stays 0), the human is not asked, and the result reported
\* is status error.
C5_InvalidCodeFatal ==
    (ruc_pc # "idle" /\ code.kind \in {"empty", "nostmt", "invalid"}) =>
        /\ exec_count = 0
        /\ retry_count = 0
        /\ hil_calls = 0
        /\ Returned => ruc_result.status = "error"

\* C6: raised errors, timeouts and tool-reported failures draw on one
\* counter: whatever the mix, the loop body is entered and the code executed
\* at most max_retries times, retry_count counts every failure and never
\* exceeds max_retries, and a delay lies between any two consecutive
\* attempts.
C6_SharedRetryBudget ==
    ruc_pc # "idle" =>
        /\ retry_count <= max_retries
        /\ retry_count = Len(failures)
        /\ Count(attempts, "attempt") <= max_retries
        /\ exec_count <= Count(attempts, "attempt")
        /\ \A i \in 1..(Len(attempts) - 1) :
              ~(attempts[i] = "attempt" /\ attempts[i + 1] = "attempt")

C6_Witness ==
    /\ Returned
    /\ max_retries = 3
    /\ failures = <<"raise", "timeout", "toolerr">>
    /\ attempts = <<"attempt", "sleep", "attempt", "sleep", "attempt">>
    /\ exec_count = 3

C8_NoAnswerIsError ==
    (Returned /\ stdin \in {"EOF", ""}) => ruc_result.status = "error"

VariantNames(node) == [k \in 1..Len(node.variants) |-> node.variants[k].name]

IsPrefix(p, q) == Len(p) <= Len(q) /\ \A i \in 1..Len(p) : p[i] = q[i]

\* C1: within one execute_step the variants are taken in declared order and
\* one at a time: variants_tried is always a prefix of the declared names,
\* every variant before the last one tried has returned a failure, the code
\* in execution is that of the last variant tried, and a variant is started
\* (its retries counter moves) only as the next one in order once all before
\* it have returned a failure.  On success variants_tried is the prefix up
\* to the succeeding variant and variant_succeeded is its last element, so
\* no later variant has been started.
C1_State ==
    es_pc # "idle" =>
        LET names == VariantNames(nodes[es_node])
            k == Len(variants_tried)
        IN  /\ IsPrefix(variants_tried, names)
            /\ Len(variant_results) = IF es_pc = "await" THEN k - 1 ELSE k
            /\ \A j \in 1..(k - 1) : variant_results[j].status = "error"
            /\ ruc_pc # "idle" =>
                  /\ es_pc = "await"
                  /\ code = nodes[es_node].variants[k].source
            /\ (es_pc = "returned" /\ es_result.status = "success") =>
                  /\ k >= 1
                  /\ es_result.variants_tried = SubSeq(names, 1, k)
                  /\ es_result.variant_succeeded = names[k]
                  /\ variant_results[k].status = "success"

C1_Step ==
    \A id \in DOMAIN nodes :
        \A j \in 1..Len(nodes[id].variants) :
            nodes'[id].variants[j].retries # nodes[id].variants[j].retries =>
                /\ es_pc = "for"
                /\ es_pc' = "await"
                /\ id = es_node
                /\ j = Len(variants_tried) + 1
                /\ Len(variant_results) = Len(variants_tried)
                /\ \A i \in 1..Len(variant_results) :
                      variant_results[i].status = "error"

C1_VariantsInOrder == [][C1_Step /\ C1_State']_vars

C1_Witness ==
    /\ es_pc = "returned"
    /\ es_result.status = "success"
    /\ es_result.variants_tried = <<"0A", "0B", "0C">>
    /\ es_result.variant_succeeded = "0C"
    /\ nodes["0"].status = "COMPLETED"
    /\ nodes["0"].variants[3].retries = 1

\* C2: when execute_step has returned for a node with at least one variant,
\* the node is FAILED exactly when every variant was attempted and none
\* succeeded and COMPLETED exactly when some variant succeeded; it is never
\* PENDING, and the returned status is success for COMPLETED and error for
\* FAILED.
C2_StepOutcome ==
    (es_pc = "returned" /\ Len(nodes[es_node].variants) >= 1) =>
        LET node == nodes[es_node]
            some_ok == \E k \in 1..Len(variant_results) :
                          variant_results[k].status = "success"
            all_bad == /\ Len(variant_results) = Len(node.variants)
                       /\ \A k \in 1..Len(variant_results) :
                             variant_results[k].status = "error"
        IN  /\ node.status # "PENDING"
            /\ node.status = "COMPLETED" <=> some_ok
            /\ node.status = "FAILED" <=> all_bad
            /\ es_result.status = "success" <=> node.status = "COMPLETED"
            /\ es_result.status = "error" <=> node.status = "FAILED"

C2_Witness ==
    /\ es_pc = "returned"
    /\ nodes[es_node].status = "FAILED"
    /\ es_result.status = "error"
    /\ Len(variant_results) = 3

\* C3: once a node's status is COMPLETED, FAILED or SKIPPED no operation
\* changes it: every status change starts from PENDING.
C3_TerminalStatusKept ==
    [][\A id \in DOMAIN nodes :
          nodes[id].status \in TerminalStatuses =>
              nodes'[id].status = nodes[id].status]_vars

\* what ask_user_for_tool_result makes up when nothing was typed
SynthesizedDefaults ==
    {DefaultEmptyAnswer}
        \cup {DefaultNonInteractive(e, StepDescription) :
                e \in {ErrEmpty, ErrNoStmt, ErrSyntax, ErrRuntime,
                       ErrTimeout, ErrTool}}

\* C9: a success result and a COMPLETED node come only from an execution
\* that went through or from a value the human typed: the result of a
\* success is never one of the synthesized defaults.
C9_NoFabricatedSuccess ==
    /\ (Returned /\ ruc_result.status = "success") =>
          ruc_result.result \notin SynthesizedDefaults
    /\ \A id \in DOMAIN nodes :
          nodes[id].status = "COMPLETED" =>
              nodes[id].globals_delta["last_result"] \notin SynthesizedDefaults

\* C10: add_fallback_node returns an id that was not a node id of the graph
\* before the call, of the form <failed_id>F<n> with every smaller suffix
\* taken; every node that was in the graph is still there, unchanged.
C10_FreshFallbackId ==
    [][fallback_id' # fallback_id \/ DOMAIN nodes' # DOMAIN nodes =>
          /\ fallback_id' \notin DOMAIN nodes
          /\ DOMAIN nodes' = DOMAIN nodes \cup {fallback_id'}
          /\ \A id \in DOMAIN nodes : nodes'[id] = nodes[id]
          /\ \E parent \in DOMAIN nodes, n \in 1..(MaxGraphCalls + 1) :
                /\ fallback_id' = FallbackId(parent, n)
                /\ \A m \in 1..(n - 1) :
                      FallbackId(parent, m) \in DOMAIN nodes]_vars

C10_Witness ==
    /\ fallback_id = "0F2"
    /\ {"0", "0F1", "0F2"} \subseteq DOMAIN nodes
    /\ nodes["0F1"].is_fallback

\* C11: the fallback children of a node, in the order they were inserted,
\* are <id>F1, <id>F2, <id>F3, ...: the n-th add_fallback_node call for a
\* parent returned the suffix F<n>, without a gap and without reusing an
\* id, and the id returned last is the last fallback child of its parent.
C11_FallbackIdsInOrder ==
    /\ \A parent \in DOMAIN nodes :
          LET fc == FallbackChildren(nodes, children, parent)
          IN  \A i \in 1..Len(fc) : fc[i] = FallbackId(parent, i)
    /\ fallback_id # None =>
          \E parent \in DOMAIN nodes :
              LET fc == FallbackChildren(nodes, children, parent)
              IN  fc # <<>> /\ fc[Len(fc)] = fallback_id

C11_Witness ==
    /\ fallback_id = "0F3"
    /\ FallbackChildren(nodes, children, "0") = <<"0F1", "0F2", "0F3">>

\* the ids add_fallback_node has given to fallbacks of parent
FallbackIdsOf(parent) ==
    {FallbackId(parent, n) : n \in 1..(MaxGraphCalls + 1)} \cap DOMAIN nodes

\* C12: every fallback node has is_fallback = True and exactly one code
\* variant, and is among the children of the node it compensates for, in
\* every state from its creation on; no other node is marked is_fallback.
C12_FallbackShape ==
    /\ \A parent \in DOMAIN nodes :
          \A id \in FallbackIdsOf(parent) :
              /\ nodes[id].is_fallback
              /\ Len(nodes[id].variants) = 1
              /\ InSeq(id, get_children(children, parent))
    /\ \A id \in DOMAIN nodes :
          nodes[id].is_fallback =>
              \E parent \in DOMAIN nodes : id \in FallbackIdsOf(parent)

C12_Witness ==
    /\ "1F1" \in DOMAIN nodes
    /\ nodes["1F1"].is_fallback
    /\ children["1"] = <<"2", "1F1">>

\* C13: select_next_node(graph, current) returns the first fallback child
\* when the current node is FAILED and has a fallback child, even when a
\* child that is no fallback was inserted before it; otherwise the first
\* child in insertion order; and no node when there is no child.
C13_SelectNextNode ==
    (current_node_id # None /\ has_node(nodes, current_node_id)) =>
        LET ch == get_children(children, current_node_id)
            failed == nodes[current_node_id].status = "FAILED"
            fbs == {i \in 1..Len(ch) : nodes[ch[i]].is_fallback}
        IN  /\ (failed /\ fbs # {}) =>
                  \E i \in fbs : /\ next_node_id = ch[i]
                                 /\ \A j \in fbs : i <= j
            /\ (~(failed /\ fbs # {}) /\ ch # <<>>) => next_node_id = ch[1]
            /\ ch = <<>> => next_node_id = None

C13_Witness ==
    /\ current_node_id = "1"
    /\ DOMAIN nodes = {"0", "1", "2", "1F1"}
    /\ nodes["1"].status = "FAILED"
    /\ children["1"] = <<"2", "1F1">>
    /\ next_node_id = "1F1"

Range(seq) == {seq[i] : i \in 1..Len(seq)}

\* C15: a registration or an update_globals call with the mapping D leaves
\* globals_schema equal to the previous mapping overridden by D: every key
\* of D has D's value, every other key keeps its value; a registration
\* without a delta leaves it as it was; and no call ever removes a key.
C15_GlobalsMerge ==
    [][/\ DOMAIN globals_schema \subseteq DOMAIN globals_schema'
       /\ history' # history =>
             LET last == history'[Len(history')] IN
             IF last.event = "globals_updated"
               THEN /\ DOMAIN globals_schema' =
                          DOMAIN globals_schema \cup DOMAIN last.updates
                    /\ \A k \in DOMAIN last.updates :
                          globals_schema'[k] = last.updates[k]
                    /\ \A k \in DOMAIN globals_schema \ DOMAIN last.updates :
                          globals_schema'[k] = globals_schema[k]
               ELSE globals_schema' = globals_schema
       /\ \A id \in DOMAIN nodes :
             nodes'[id].globals_delta # nodes[id].globals_delta =>
                 \A k \in DOMAIN nodes'[id].globals_delta :
                     globals_schema'[k] = nodes'[id].globals_delta[k]]_vars

C15_Witness ==
    /\ Len(history) = 4
    /\ history[3].event = "step_result"
    /\ globals_schema =
         ("x" :> "5") @@ ("last_result" :> ExecValue) @@ ("last_node" :> "0")

\* C16: an id is inserted into nodes_executed only when the plan graph has
\* a node with that id, and that node is COMPLETED or FAILED at that
\* moment (never PENDING or SKIPPED).
C16_ExecutedNodesSettled ==
    [][\A id \in Range(nodes_executed') \ Range(nodes_executed) :
          /\ has_node(nodes', id)
          /\ nodes'[id].status \in {"COMPLETED", "FAILED"}]_vars

C16_Witness ==
    /\ nodes_executed = <<"1", "0">>
    /\ nodes["1"].status = "FAILED"
    /\ nodes["0"].status = "COMPLETED"

\* C14: in the driving loop, when the step just executed has left its node
\* FAILED, add_fallback_node is called for that node and the fallback it
\* creates becomes the current node; the next execute_step call after a
\* failed step is for that fallback.
C14_FallbackRunsNext ==
    [][/\ (/\ loop_pc = "await"
           /\ loop_pc' # "await"
           /\ nodes[current_node_id].status = "FAILED") =>
              /\ loop_pc' = "head"
              /\ fallback_id' \notin DOMAIN nodes
              /\ has_node(nodes', fallback_id')
              /\ InSeq(fallback_id',
                       get_children(children', current_node_id))
              /\ current_node_id' = fallback_id'
       /\ (/\ loop_pc = "head"
           /\ loop_pc' = "await"
           /\ node_execution_trace # <<>>
           /\ nodes[node_execution_trace[Len(node_execution_trace)]].status
                 = "FAILED") =>
              /\ es_node' = fallback_id
              /\ InSeq(es_node',
                       get_children(
                           children,
                           node_execution_trace[Len(node_execution_trace)]))
      ]_vars

C18_GlobalsWrittenByRegistration ==
    [][(\/ globals_schema' # globals_schema
        \/ \E i \in (Len(history) + 1)..Len(history') :
              history'[i].event = "globals_updated") =>
          /\ Len(history') = Len(history) + 2
          /\ history'[Len(history) + 1].event = "step_result"
          /\ history'[Len(history) + 2].event = "globals_updated"
          /\ ruc_pc' = "idle"]_vars

\* nodes a variant of which has been started and whose result is not
\* registered
Executing ==
    {id \in DOMAIN nodes :
        /\ nodes[id].status = "PENDING"
        /\ \E k \in 1..Len(nodes[id].variants) :
              nodes[id].variants[k].retries > 0}

\* C19: at most one step node is executing at any moment of the driving
\* loop: while execute_step runs for the current node, every node started
\* before has returned and has its result registered, and between two
\* execute_step calls no node is executing.
C19_OneStepAtATime ==
    /\ Cardinality(Executing) <= 1
    /\ Executing \subseteq
          (IF es_pc \in {"for", "await"} THEN {es_node} ELSE {})
    /\ es_pc # "idle" => (loop_pc = "await" /\ es_node = current_node_id)
    /\ ruc_pc # "idle" => es_pc = "await"
    /\ \A id \in DOMAIN nodes \ Executing :
          (\E k \in 1..Len(nodes[id].variants) :
              nodes[id].variants[k].retries > 0) =>
                 /\ nodes[id].status \in {"COMPLETED", "FAILED"}
                 /\ InSeq(id, nodes_executed)

C19_Witness ==
    /\ es_pc = "await"
    /\ es_node = "1"
    /\ Executing = {"1"}
    /\ nodes["0"].status = "COMPLETED"
    /\ nodes_executed = <<"0">>
    /\ node_execution_trace = <<"0">>

\* C20: parallel(c1, ..., cn) issues all n calls, returns only when all n
\* have finished, and returns n outcomes in argument order, outcome i being
\* call i's value or exception; whatever the order of completion, a call
\* that fails leaves every other call in flight and its outcome untouched,
\* and parallel never raises.
C20_State ==
    /\ par_pc # "raised"
    /\ par_pc # "idle" =>
          /\ Len(coros) = Len(tool_calls_arg)
          /\ \A i \in 1..Len(coros) :
                /\ coros[i].call = i
                /\ coros[i].kind \in OutcomeKinds \cup {"pending"}
    /\ par_pc = "returned" =>
          /\ Finished(coros) = 1..Len(tool_calls_arg)
          /\ Len(par_result) = Len(tool_calls_arg)
          /\ \A i \in 1..Len(par_result) : par_result[i] = coros[i]

C20_Step ==
    par_pc = "gather" =>
        /\ \A j \in Finished(coros) : coros'[j] = coros[j]
        /\ Cardinality(Finished(coros')) <= Cardinality(Finished(coros)) + 1
        /\ par_pc' = "returned" => coros' = coros

C20_ParallelGather == [][C20_Step /\ C20_State']_vars

C20_Witness ==
    /\ par_pc = "returned"
    /\ Len(tool_calls_arg) = 3
    /\ par_result = <<Outcome(1, "value"), Outcome(2, "exception"),
                      Outcome(3, "value")>>


\* the edges of the graph, as (parent, position) pairs
Edges(g_children) ==
    UNION {{<<p, k>> : k \in 1..Len(g_children[p])} : p \in DOMAIN g_children}
\* the edges that lead into node_id
IncomingEdges(g_children, node_id) ==
    {e \in Edges(g_children) : g_children[e[1]][e[2]] = node_id}

\* C21: in a plan graph built by build_initial_plan_graph and extended by
\* add_fallback_node calls, node ids are pairwise distinct (every node is
\* kept under its own id, and no call replaced a node added before: each
\* edge leads to a node of its own), and every node other than
\* start_node_id has an incoming edge.
C21_GraphWellFormed ==
    /\ start_node_id \in DOMAIN nodes
    /\ \A id \in DOMAIN nodes : nodes[id].index = id
    /\ \A e \in Edges(children) :
          /\ e[1] \in DOMAIN nodes
          /\ children[e[1]][e[2]] \in DOMAIN nodes
    /\ \A id \in DOMAIN nodes :
          Cardinality(IncomingEdges(children, id)) <= 1
    /\ \A id \in DOMAIN nodes \ {start_node_id} :
          IncomingEdges(children, id) # {}

C21_Witness ==
    /\ {"0", "1", "2", "1F1", "1F2", "1F1F1"} \subseteq DOMAIN nodes
    /\ IncomingEdges(children, "1F2") = {<<"1", 3>>}
    /\ IncomingEdges(children, "1F1F1") = {<<"1F1", 1>>}


\* C22: when an input() of ask_user_for_plan meets end of input, at the
\* first prompt or at a follow-up prompt after 'json', 'modify' or
\* 'custom', the function returns (suggested_plan, None).
C22_EndOfInputReturnsDefault ==
    ap_eof =>
        /\ ap_pc = "returned"
        /\ ap_result = PlanResult(ap_suggested, NoPlan)

\* the call of ask_user_for_plan ends with this step
PlanCallEnds ==
    ap_pc \in {"choice", "json", "lines"} /\ ap_pc' \in {"returned", "raised"}
\* the user chose 'json' and entered a JSON object that contains
\* final_answer
JsonPlanEntered ==
    /\ ap_pc = "json"
    /\ ap_last_line'.kind = "object"
    /\ "final_answer" \in DOMAIN ap_last_line'.payload

\* C23: ask_user_for_plan returns a structured payload only when the user
\* chose 'json' and entered a JSON object containing final_answer; in every
\* other case it returns (plan, None), plan being the non-empty custom step
\* list entered, if any, and otherwise the suggested plan.
C23_Step ==
    PlanCallEnds =>
        /\ (ap_pc' = "returned" /\ ~ap_result'.user_plan_dict.is_none)
              => JsonPlanEntered
        /\ ~JsonPlanEntered =>
              /\ ap_pc' = "returned"
              /\ ap_result' =
                   PlanResult(IF custom_plan # <<>> THEN custom_plan
                                                   ELSE ap_suggested, NoPlan)
C23_PlanResultShape == [][C23_Step]_vars

\* C24: once a structured payload was stored in a run, a later plan
\* escalation of that run does not ask the user again.
C24_Step ==
    (run_stored # {} /\ run_escalations' = run_escalations + 1)
        => run_prompts' = run_prompts
C24_StoredPlanReused == [][C24_Step]_vars

\* C25: when a run has finished, UserPlanStorage holds no plan that was
\* stored during that run.
C25_NoPlanLeftAfterRun ==
    run_pc = "finished" =>
        \A id \in run_stored : ~has_user_plan(session_plans, id)


\* the calls of func made so far whose exception is_429_error accepts
RateLimited(outcome) ==
    outcome.kind = "raised"
        /\ is_429_error(GOOGLE_ERRORS_AVAILABLE, outcome.exc)

\* C26: with_exponential_backoff calls func at most max_retries+1 times;
\* an exception that is not a 429 error is re-raised right after the call
\* that raised it, with no sleep and no further call; when every attempt
\* raises a 429 error, the last exception is raised after exactly
\* max_retries+1 calls and max_retries sleeps; a successful call ends the
\* function with that call's result.
C26_State ==
    LET calls == Len(bo_outcomes) IN
    /\ calls <= bo_max_retries + 1
    /\ \A i \in 1..(calls - 1) : RateLimited(bo_outcomes[i])
    /\ bo_pc \in {"try", "sleep"} =>
          /\ \A i \in 1..calls : RateLimited(bo_outcomes[i])
          /\ Len(bo_sleeps) = calls
          /\ calls <= bo_max_retries
    /\ bo_pc \in {"returned", "raised"} =>
          /\ bo_result = bo_outcomes[calls]
          /\ Len(bo_sleeps) = calls - 1
          /\ bo_pc = "returned" <=> bo_outcomes[calls].kind = "value"
          /\ (bo_pc = "raised" /\ RateLimited(bo_outcomes[calls])) =>
                /\ calls = bo_max_retries + 1
                /\ Len(bo_sleeps) = bo_max_retries
                /\ bo_result.exc = last_exception
C26_Step ==
    bo_pc \in {"returned", "raised"} =>
        UNCHANGED <<bo_outcomes, bo_sleeps, bo_result>>
C26_BackoffAttempts == [][C26_Step /\ C26_State']_vars

C26_Witness ==
    /\ bo_pc = "raised"
    /\ bo_max_retries = 3
    /\ Len(bo_outcomes) = 4
    /\ \A i \in 1..4 : RateLimited(bo_outcomes[i])
    /\ bo_sleeps = <<6, 10, 18>>


\* C27: code executed in the sandbox gets hold of no module outside the
\* allow-list, and reaches the filesystem or the network only through tool
\* callables.
C27_SandboxConfined ==
    /\ held_modules \subseteq ALLOWED_MODULES
    /\ \A e \in sb_effects :
          e.kind \in {"filesystem", "network"} => e.via = "tool"


\* C28: with max_retries at least 1, run_user_code returns status error
\* only for a source over the call-count ceiling; every other failure ends
\* in the human escalation and a success result.
C28_ErrorOnlyOverCeiling ==
    (ruc_pc = "returned" /\ max_retries >= 1
        /\ ruc_result.status = "error") => TooManyFunctions(code)


\* the steps of the plan as it was built: the nodes that are not fallbacks
ChainSteps == {id \in DOMAIN nodes : ~nodes[id].is_fallback}

\* C29: a fallback node has no outgoing edge, when created and ever after;
\* once a fallback has been executed the loop has no next node
\* (select_next_node returns None for it); the successors the failed node
\* had in the plan are never executed and stay PENDING.
C29_State ==
    /\ \A id \in DOMAIN nodes :
          nodes[id].is_fallback => get_children(children, id) = <<>>
    /\ \A id \in DOMAIN nodes :
          nodes[id].status = "FAILED" =>
              \A c \in ChainSteps :
                  InSeq(c, get_children(children, id)) =>
                      /\ nodes[c].status = "PENDING"
                      /\ ~InSeq(c, node_execution_trace)
C29_Step ==
    (/\ loop_pc = "await"
     /\ loop_pc' = "head"
     /\ nodes[current_node_id].is_fallback) => current_node_id' = None
C29_FallbackEndsRun == [][C29_Step /\ C29_State']_vars

\* C30: on a chain of n steps the loop terminates: a step is executed at
\* most once, a failed step gets one fallback and the run ends after it,
\* so execute_step is called at most n + 1 times and no node is executed
\* twice.
C30_LoopTerminates ==
    /\ Len(node_execution_trace) <= Cardinality(ChainSteps) + 1
    /\ \A i, j \in 1..Len(node_execution_trace) :
          node_execution_trace[i] = node_execution_trace[j] => i = j


\* C31: in the driving loop, the step that brings the number of consecutive
\* failed steps to max_consecutive_failures, with no successful step in
\* between, triggers human escalation with reason "consecutive_failures"
C31_Step ==
    (/\ loop_pc = "await"
     /\ loop_pc' # "await"
     /\ consecutive_failures' >= max_consecutive_failures) =>
        /\ "hil_reason" \in DOMAIN globals_schema'
        /\ globals_schema'["hil_reason"] = "consecutive_failures"
C31_ConsecutiveFailuresEscalate == [][C31_Step]_vars


\* C32: in an agent_loop2 run check_step_limit is consulted before every
\* step execution and reports the limit exactly when the index is at least
\* max_steps; no step is executed at an index that is at least max_steps;
\* a reported limit leads to the stored user plan or to a plan prompt, and
\* at the checks made before a step the loop ends after it
C32_Consults == session_escalate \/ session_execute_step \/ session_next_step
C32_Step ==
    /\ steps_executed' > steps_executed =>
          /\ session_stage = "head"
          /\ ~is_limit_reached'
          /\ current_step_index' < SessionMaxSteps
    /\ C32_Consults =>
          (is_limit_reached' <=> current_step_index' >= SessionMaxSteps)
    /\ (C32_Consults /\ is_limit_reached') =>
          \/ /\ UseStoredPlan(session_plans, run_session_id)
             /\ ap_pc' = "idle"
             /\ run_prompts' = run_prompts
             /\ session_stage = "head" => run_pc' = "finished"
          \/ /\ ~UseStoredPlan(session_plans, run_session_id)
             /\ ap_pc' = "choice"
             /\ run_pc' = "escalating"
             /\ run_prompts' = run_prompts + 1
    /\ (/\ run_kind = "agent_loop2"
        /\ run_pc = "escalating"
        /\ run_site \in {"step_limit", "evaluate_limit"}
        /\ run_pc' # "escalating") => run_pc' \in {"finished", "raised"}
C32_StepLimitEnforced == [][C32_Step]_vars
C32_Witness ==
    /\ run_kind = "agent_loop2"
    /\ run_site = "step_limit"
    /\ ap_pc = "choice"
    /\ is_limit_reached
    /\ steps_executed > 0


\* C33: variant.retries equals the number of times the variant's source
\* was attempted, every pass of run_user_code's retry loop counted: while
\* run_user_code works on a variant its attempts never outnumber
\* variant.retries, and after the variant's first activation (retries = 1)
\* exactly one attempt was made
C33_RetriesCountAttempts ==
    (es_pc = "await" /\ ruc_pc # "idle") =>
        LET variant == nodes[es_node].variants[es_iter]
        IN  /\ Count(attempts, "attempt") <= variant.retries
            /\ (ruc_pc = "returned" /\ variant.retries = 1) =>
                   Count(attempts, "attempt") = 1


\* C34: a step node with an empty variant list is rejected when the plan
\* graph is built, so the graph never holds a node without variants and
\* execute_step never marks such a node FAILED
C34_State == \A id \in DOMAIN nodes : Len(nodes[id].variants) >= 1
C34_Step ==
    \A id \in DOMAIN nodes :
        (nodes'[id].status = "FAILED" /\ nodes[id].status # "FAILED") =>
            Len(nodes[id].variants) >= 1
C34_ZeroVariantsRejected == [][C34_Step /\ C34_State']_vars
C34_Witness ==
    /\ call_error = "ValueError"
    /\ ~has_node(nodes, "1")
    /\ nodes["0"].status = "FAILED"
    /\ nodes["0"].variants[3].retries >= 1


\* C35: the implicit result-return pass is idempotent: applied to its own
\* output it adds no return statement, so after two applications the tree
\* has as many return statements as after one
C35_PassIdempotent ==
    \A k \in 2..passes :
        /\ return_counts[k + 1] = return_counts[2]
        /\ implicit_result_return(tree_body) = tree_body
C35_Witness ==
    /\ passes >= 2
    /\ return_counts[2] = return_counts[1] + 1
    /\ return_counts[3] = return_counts[2]


\* the defaults of with_exponential_backoff's parameters
initial_delay == 1
backoff_multiplier == 2
RECURSIVE ExponentialDelay(_)
ExponentialDelay(k) ==
    IF k = 1 THEN initial_delay
             ELSE backoff_multiplier * ExponentialDelay(k - 1)
\* C36: with_exponential_backoff waits initial_delay before the first
\* retry and backoff_multiplier times the previous delay before each
\* further retry, never longer than max_delay (defaults: 1, 2, 4 seconds)
C36_ExponentialDelays ==
    \A k \in 1..Len(bo_sleeps) :
        bo_sleeps[k] = Min(ExponentialDelay(k), bo_max_delay)


\* C37: while execute_step runs and when it ends with every variant
\* failed, globals_schema is what it was before the call and the node's
\* globals_delta is not set; a globals_delta is set only on a node that
\* has just COMPLETED
C37_Step ==
    /\ (/\ es_pc \in {"for", "await"}
        /\ ~(es_pc' = "returned" /\ es_result'.status = "success")) =>
           /\ globals_schema' = globals_schema
           /\ \A id \in DOMAIN nodes :
                 nodes'[id].globals_delta = nodes[id].globals_delta
    /\ \A id \in DOMAIN nodes :
           nodes'[id].globals_delta # nodes[id].globals_delta =>
               /\ nodes'[id].status = "COMPLETED"
               /\ nodes'[id].globals_delta # EmptyDict
C37_FailureLeavesGlobals == [][C37_Step]_vars
C37_Witness ==
    /\ es_pc = "returned"
    /\ es_result.status = "error"
    /\ nodes[es_node].status = "FAILED"
    /\ nodes[es_node].globals_delta = EmptyDict
    /\ Len(variants_tried) = 3
    /\ "last_result" \notin DOMAIN globals_schema


\* C38: register_step_result for a node id that is not in the plan graph
\* raises an error and changes nothing: no node, no history entry, no
\* nodes_executed, failed_nodes or globals_schema entry; so no step result
\* is ever on record for an id the graph does not hold
C38_Step ==
    (call_error' = "ValueError" /\ calls_made' = calls_made + 1) =>
        /\ nodes' = nodes
        /\ history' = history
        /\ nodes_executed' = nodes_executed
        /\ failed_nodes' = failed_nodes
        /\ globals_schema' = globals_schema
C38_State ==
    /\ \A i \in 1..Len(history) :
          history[i].event = "step_result" =>
              has_node(nodes, history[i].node_id)
    /\ \A i \in 1..Len(nodes_executed) : has_node(nodes, nodes_executed[i])
    /\ \A i \in 1..Len(failed_nodes) : has_node(nodes, failed_nodes[i])
C38_UnknownNodeRejected == [][C38_Step /\ C38_State']_vars
C38_Witness ==
    /\ call_error = "ValueError"
    /\ nodes_executed # <<>>
    /\ calls_made >= 2


\* C39: in every reachable state of a run, every id in failed_nodes names a
\* node of the current plan graph whose status is FAILED, and every id in
\* nodes_executed names a node of the current plan graph, also after the
\* plan graph has been replaced following human escalation
C39_TrackedNodesInGraph ==
    /\ \A i \in 1..Len(failed_nodes) :
          /\ has_node(nodes, failed_nodes[i])
          /\ nodes[failed_nodes[i]].status = "FAILED"
    /\ \A i \in 1..Len(nodes_executed) : has_node(nodes, nodes_executed[i])


\* C40: for any interleaving of RateLimiter.acquire() calls, no more than
\* requests_per_minute acquisitions return to their callers within any
\* window of 60 seconds
ReturnedWithin(from) ==
    Cardinality({j \in 1..Len(acquired) :
                    from <= acquired[j] /\ acquired[j] < from + Window})
C40_RateLimited ==
    \A i \in 1..Len(acquired) :
        ReturnedWithin(acquired[i]) <= requests_per_minute

====
